---- MODULE Spec2Model ----
(***************************************************************************)
(* Model of the Dify workflow -> MCP tool bridge: DifyService (the         *)
(* name -> API key map and the discovery loop), the converter (schema      *)
(* normalisation and unique tool names) and WorkflowManager (tool list and *)
(* invocation by name).                                                    *)
(*                                                                         *)
(* Workflow and tool names are sequences of one-character strings, so that *)
(* split('-') and the `${baseName}-${counter}` template are computed       *)
(* character by character.  API keys and parameter names are opaque        *)
(* strings.  An optional value is <<>> (absent) or <<v>> (present).        *)
(***************************************************************************)
EXTENDS Integers, Sequences, FiniteSets, TLC

(* ------------------------------ bounds -------------------------------- *)
\* Largest number of configured API keys.
MaxKeys == 3
\* Largest run of taken suffixes base-1 .. base-n offered to the name resolver.
MaxTaken == 11
\* Largest number of components of a form, of parameters of an array and of
\* entries of a parameters object offered to the normaliser.
MaxEntries == 2

(* ------------------------- optional values ---------------------------- *)
None == <<>>
Some(v) == <<v>>
IsSome(o) == o # <<>>
Get(o) == o[1]

\* JavaScript truthiness of an optional opaque string (undefined and "" are
\* falsy), and a || b on such values.
TruthyStr(o) == IsSome(o) /\ Get(o) # ""
OrStr(a, b) == IF TruthyStr(a) THEN a ELSE b

\* The same for a name held as a character sequence ("" is <<>>).
TruthyName(o) == IsSome(o) /\ Get(o) # <<>>
OrName(a, b) == IF TruthyName(a) THEN a ELSE b

(* ------------------------------ strings ------------------------------- *)
Dash == "-"
DigitChars == <<"0", "1", "2", "3", "4", "5", "6", "7", "8", "9">>

\* Decimal rendering of a natural number, as the template literal does.
RECURSIVE NumberToString(_)
NumberToString(n) ==
    IF n < 10 THEN <<DigitChars[n + 1]>>
    ELSE NumberToString(n \div 10) \o <<DigitChars[(n % 10) + 1]>>

\* workflowName.split('-')[0]: the characters before the first '-'.
SplitDashFirst(s) ==
    IF \E i \in 1..Len(s) : s[i] = Dash
    THEN LET first == CHOOSE i \in 1..Len(s) :
                          s[i] = Dash /\ \A j \in 1..(i - 1) : s[j] # Dash
         IN SubSeq(s, 1, first - 1)
    ELSE s

\* "dify-workflow", the fallback tool name.
DefaultWorkflowName ==
    <<"d", "i", "f", "y", "-", "w", "o", "r", "k", "f", "l", "o", "w">>
\* "Execute Dify Workflow", the fallback tool description.
DefaultDescription == "Execute Dify Workflow"

(* ------------------------ schema normalisation ------------------------ *)
\* The accumulator of a normalisation: the properties and required list being
\* filled in, and the lines written with console.error so far (the content
\* dump that follows a warning is left out).
EmptySchema == [properties |-> <<>>, required |-> <<>>, diagnostics |-> <<>>]

\* console.error(message)
Warn(acc, message) == [acc EXCEPT !.diagnostics = Append(@, message)]

FormNoVariableWarning(componentIndex) ==
    "Warning: user_input_form[" \o ToString(componentIndex)
        \o "] has no variable name:"
ParameterNoNameWarning(index) ==
    "Warning: Parameter[" \o ToString(index) \o "] has no name:"
NotAnArrayWarning == "Warning: paramsData.parameters is not an array"
NoDefinitionWarning ==
    "Warning: No parameter definition found. Neither user_input_form nor parameters exists."

\* An assignment that keeps the value a name already has.
SetProperty_KeepFirst(properties, name, value) ==
    [n \in (DOMAIN properties) \cup {name} |->
        IF n \in DOMAIN properties THEN properties[n] ELSE value]

\* properties[name] = value (assignment on a JS object: last write wins).
SetProperty(properties, name, value) ==
    [n \in (DOMAIN properties) \cup {name} |->
        IF n = name THEN value ELSE properties[n]]

\* A switch on componentType that takes a slider for a string.
ComponentParamType_SliderString(componentType) ==
    CASE componentType = "checkbox" -> "array"
      [] componentType = "number" -> "number"
      [] componentType = "switch" -> "boolean"
      [] OTHER -> "string"

\* The switch on componentType.
ComponentParamType(componentType) ==
    CASE componentType \in {"select", "radio"} -> "string"
      [] componentType = "checkbox" -> "array"
      [] componentType \in {"number", "slider"} -> "number"
      [] componentType = "switch" -> "boolean"
      [] OTHER -> "string"

\* An entry handler that stores a property for an optional field only.
ExtractFormEntry_RequiredOnly(entry, componentIndex, acc) ==
    LET typedField == entry.field IN
    IF ~TruthyStr(typedField.variable)
    THEN Warn(acc, FormNoVariableWarning(componentIndex))
    ELSE LET paramName == Get(typedField.variable) IN
         IF typedField.required
         THEN [acc EXCEPT !.required = Append(@, paramName)]
         ELSE [acc EXCEPT
                 !.properties = SetProperty(@, paramName,
                            [type |-> ComponentParamType(entry.componentType),
                             description |->
                                 Get(OrStr(typedField.label, Some(paramName)))])]

\* An entry handler that describes a field without a label by "".
ExtractFormEntry_LabelOnly(entry, componentIndex, acc) ==
    LET typedField == entry.field IN
    IF ~TruthyStr(typedField.variable)
    THEN Warn(acc, FormNoVariableWarning(componentIndex))
    ELSE LET paramName == Get(typedField.variable) IN
         [acc EXCEPT
            !.properties = SetProperty(@, paramName,
                            [type |-> ComponentParamType(entry.componentType),
                             description |->
                                 Get(OrStr(typedField.label, Some("")))]),
            !.required = IF typedField.required
                         THEN Append(@, paramName)
                         ELSE @]

\* One [componentType, field] entry of the component at componentIndex.
ExtractFormEntry(entry, componentIndex, acc) ==
    LET typedField == entry.field IN
    IF ~TruthyStr(typedField.variable)
    THEN Warn(acc, FormNoVariableWarning(componentIndex))
    ELSE LET paramName == Get(typedField.variable) IN
         [acc EXCEPT
            !.properties = SetProperty(@, paramName,
                            [type |-> ComponentParamType(entry.componentType),
                             description |->
                                 Get(OrStr(typedField.label, Some(paramName)))]),
            !.required = IF typedField.required
                         THEN Append(@, paramName)
                         ELSE @]

\* for (const [componentType, field] of Object.entries(component))
RECURSIVE ExtractFormComponent(_, _, _)
ExtractFormComponent(component, componentIndex, acc) ==
    IF component = <<>> THEN acc
    ELSE ExtractFormComponent(
             Tail(component), componentIndex,
             ExtractFormEntry(Head(component), componentIndex, acc))

\* userInputForm.forEach((component, componentIndex) => ...), from the
\* component at componentIndex on.
RECURSIVE ExtractFormFrom(_, _, _)
ExtractFormFrom(userInputForm, componentIndex, acc) ==
    IF userInputForm = <<>> THEN acc
    ELSE ExtractFormFrom(
             Tail(userInputForm), componentIndex + 1,
             ExtractFormComponent(Head(userInputForm), componentIndex, acc))

extractPropertiesFromUserInputForm(userInputForm, acc) ==
    ExtractFormFrom(userInputForm, 0, acc)

\* A conversion that never marks a parameter as required.
ConvertParameterEntry_NeverRequired(e) ==
    IF ~e.isObject
    THEN [name |-> Some(e.key), type |-> Some("string"),
          description |-> Some(""), required |-> FALSE]
    ELSE [name |-> Some(e.key),
          type |-> OrStr(e.value.type, Some("string")),
          description |-> OrStr(e.value.description, Some("")),
          required |-> FALSE]

\* One [key, value] entry of a parameters object.  A value that is not an
\* object is modelled as isObject = FALSE.
ConvertParameterEntry(e) ==
    IF ~e.isObject
    THEN [name |-> Some(e.key), type |-> Some("string"),
          description |-> Some(""), required |-> FALSE]
    ELSE [name |-> Some(e.key),
          type |-> OrStr(e.value.type, Some("string")),
          description |-> OrStr(e.value.description, Some("")),
          required |-> e.value.required]

convertParametersObjectToArray(parametersObj) ==
    [i \in 1..Len(parametersObj) |-> ConvertParameterEntry(parametersObj[i])]

\* A handler that gives every parameter the type "string".
ExtractParameter_TypeString(param, index, acc) ==
    IF ~TruthyStr(param.name)
    THEN Warn(acc, ParameterNoNameWarning(index))
    ELSE [acc EXCEPT
            !.properties = SetProperty(@, Get(param.name),
                            [type |-> "string",
                             description |->
                                 Get(OrStr(param.description, Some("")))]),
            !.required = IF param.required
                         THEN Append(@, Get(param.name))
                         ELSE @]

\* The parameter at position index of the array.
ExtractParameter(param, index, acc) ==
    IF ~TruthyStr(param.name)
    THEN Warn(acc, ParameterNoNameWarning(index))
    ELSE [acc EXCEPT
            !.properties = SetProperty(@, Get(param.name),
                            [type |-> Get(OrStr(param.type, Some("string"))),
                             description |->
                                 Get(OrStr(param.description, Some("")))]),
            !.required = IF param.required
                         THEN Append(@, Get(param.name))
                         ELSE @]

\* A loop over the parameters that gives up at the first one without a name.
RECURSIVE ExtractParametersFrom_StopAtBad(_, _, _)
ExtractParametersFrom_StopAtBad(parameters, index, acc) ==
    IF parameters = <<>> THEN acc
    ELSE IF ~TruthyStr(Head(parameters).name)
    THEN Warn(acc, ParameterNoNameWarning(index))
    ELSE ExtractParametersFrom_StopAtBad(
             Tail(parameters), index + 1,
             ExtractParameter(Head(parameters), index, acc))

\* parameters.forEach((param, index) => ...), from the parameter at index on.
RECURSIVE ExtractParametersFrom(_, _, _)
ExtractParametersFrom(parameters, index, acc) ==
    IF parameters = <<>> THEN acc
    ELSE ExtractParametersFrom(
             Tail(parameters), index + 1,
             ExtractParameter(Head(parameters), index, acc))

extractPropertiesFromParametersArray(parameters, acc) ==
    ExtractParametersFrom(parameters, 0, acc)

\* A dispatch that reports nothing when no parameter definition is found.
extractPropertiesFromParameters_Silent(paramsData) ==
    IF /\ IsSome(paramsData.user_input_form)
       /\ Get(paramsData.user_input_form).isArray
    THEN extractPropertiesFromUserInputForm(
             Get(paramsData.user_input_form).items, EmptySchema)
    ELSE IF IsSome(paramsData.parameters)
            /\ Get(paramsData.parameters).shape # "null"
    THEN LET p == Get(paramsData.parameters) IN
         CASE p.shape = "array" ->
                  extractPropertiesFromParametersArray(p.items, EmptySchema)
           [] p.shape = "object" ->
                  extractPropertiesFromParametersArray(
                      convertParametersObjectToArray(p.items),
                      Warn(EmptySchema, NotAnArrayWarning))
           [] OTHER -> Warn(EmptySchema, NotAnArrayWarning)
    ELSE EmptySchema

\* A dispatch that reads the legacy parameters after the form as well.
extractPropertiesFromParameters_LegacyToo(paramsData) ==
    LET form == IF /\ IsSome(paramsData.user_input_form)
                   /\ Get(paramsData.user_input_form).isArray
                THEN extractPropertiesFromUserInputForm(
                         Get(paramsData.user_input_form).items, EmptySchema)
                ELSE EmptySchema
    IN IF IsSome(paramsData.parameters)
          /\ Get(paramsData.parameters).shape # "null"
       THEN LET p == Get(paramsData.parameters) IN
            CASE p.shape = "array" ->
                     extractPropertiesFromParametersArray(p.items, form)
              [] p.shape = "object" ->
                     extractPropertiesFromParametersArray(
                         convertParametersObjectToArray(p.items),
                         Warn(form, NotAnArrayWarning))
              [] OTHER -> Warn(form, NotAnArrayWarning)
       ELSE IF /\ IsSome(paramsData.user_input_form)
               /\ Get(paramsData.user_input_form).isArray
       THEN form
       ELSE Warn(EmptySchema, NoDefinitionWarning)

\* paramsData = [user_input_form : optional [isArray, items],
\*               parameters : optional [shape, items]].
\* user_input_form.items is a sequence of components, each the sequence of
\* its [componentType, field] entries; isArray = FALSE stands for a truthy
\* value that is not an array.  The shape of parameters is
\*   "array"  (items: sequence of parameters),
\*   "object" (items: sequence of [key, isObject, value] entries),
\*   "null"   (null: falsy, items unused) or
\*   "other"  (a truthy value that is neither: items unused).
extractPropertiesFromParameters(paramsData) ==
    IF /\ IsSome(paramsData.user_input_form)
       /\ Get(paramsData.user_input_form).isArray
    THEN extractPropertiesFromUserInputForm(
             Get(paramsData.user_input_form).items, EmptySchema)
    ELSE IF IsSome(paramsData.parameters)
            /\ Get(paramsData.parameters).shape # "null"
    THEN LET p == Get(paramsData.parameters) IN
         CASE p.shape = "array" ->
                  extractPropertiesFromParametersArray(p.items, EmptySchema)
           [] p.shape = "object" ->
                  extractPropertiesFromParametersArray(
                      convertParametersObjectToArray(p.items),
                      Warn(EmptySchema, NotAnArrayWarning))
           [] OTHER -> Warn(EmptySchema, NotAnArrayWarning)
    ELSE Warn(EmptySchema, NoDefinitionWarning)

(* ----------------------------- tool names ----------------------------- *)
SuffixedName(baseName, counter) ==
    baseName \o <<Dash>> \o NumberToString(counter)

\* while (workflowNames.has(`${baseName}-${counter}`)) counter++
RECURSIVE FirstFreeCounter(_, _, _)
FirstFreeCounter(baseName, workflowNames, counter) ==
    IF SuffixedName(baseName, counter) \in workflowNames
    THEN FirstFreeCounter(baseName, workflowNames, counter + 1)
    ELSE counter

\* A resolver that always appends -1 to a taken name.
getUniqueWorkflowName_NoLoop(baseName, workflowNames) ==
    IF baseName \in workflowNames THEN SuffixedName(baseName, 1) ELSE baseName

\* A resolver whose counter starts at 2.
getUniqueWorkflowName_FromTwo(baseName, workflowNames) ==
    IF baseName \in workflowNames
    THEN SuffixedName(baseName, FirstFreeCounter(baseName, workflowNames, 2))
    ELSE baseName

\* A resolver that numbers every name, the first of its kind too.
getUniqueWorkflowName_AlwaysNumbered(baseName, workflowNames) ==
    SuffixedName(baseName, FirstFreeCounter(baseName, workflowNames, 1))

getUniqueWorkflowName(baseName, workflowNames) ==
    IF baseName \in workflowNames
    THEN SuffixedName(baseName, FirstFreeCounter(baseName, workflowNames, 1))
    ELSE baseName

\* infoData.name || "dify-workflow"
BaseNameOf(infoData) == Get(OrName(infoData.name, Some(DefaultWorkflowName)))

BuildTool(toolName, workflowData) ==
    LET schema == extractPropertiesFromParameters(workflowData.paramsData) IN
    [name |-> toolName,
     description |->
         Get(OrStr(workflowData.infoData.description, Some(DefaultDescription))),
     inputSchema |-> [type |-> "object",
                      properties |-> schema.properties,
                      required |-> schema.required]]

RECURSIVE ConvertFrom(_, _, _)
ConvertFrom(workflowDataList, tools, workflowNames) ==
    IF workflowDataList = <<>> THEN tools
    ELSE LET workflowData == Head(workflowDataList)
             toolName == getUniqueWorkflowName(BaseNameOf(workflowData.infoData),
                                               workflowNames)
         IN ConvertFrom(Tail(workflowDataList),
                        Append(tools, BuildTool(toolName, workflowData)),
                        workflowNames \cup {toolName})

\* A converter that drops a workflow whose base name was already used.
RECURSIVE ConvertSkippingTaken(_, _, _)
ConvertSkippingTaken(workflowDataList, tools, workflowNames) ==
    IF workflowDataList = <<>> THEN tools
    ELSE LET workflowData == Head(workflowDataList)
             baseName == BaseNameOf(workflowData.infoData)
         IN IF baseName \in workflowNames
            THEN ConvertSkippingTaken(Tail(workflowDataList), tools, workflowNames)
            ELSE ConvertSkippingTaken(Tail(workflowDataList),
                                      Append(tools, BuildTool(baseName, workflowData)),
                                      workflowNames \cup {baseName})

convertDifyWorkflowToMCPTools_SkipTaken(workflowDataList) ==
    ConvertSkippingTaken(workflowDataList, <<>>, {})

convertDifyWorkflowToMCPTools(workflowDataList) ==
    ConvertFrom(workflowDataList, <<>>, {})

(* ------------------------------ responses ---------------------------- *)
\* A JSON value is [t, s, items]: t is "string", "number", "null" or
\* "object"; s is the text of a string, or the JSON text of a number or of
\* null; items are the [key, value] fields of an object, in order.
JStr(text) == [t |-> "string", s |-> text, items |-> <<>>]
JNum(text) == [t |-> "number", s |-> text, items |-> <<>>]
JNull == [t |-> "null", s |-> "null", items |-> <<>>]
JObj(fields) == [t |-> "object", s |-> "", items |-> fields]
Field(key, value) == [key |-> key, value |-> value]

\* value[key], undefined (None) when value has no such property.
Lookup(value, key) ==
    IF \E i \in 1..Len(value.items) : value.items[i].key = key
    THEN Some(value.items[CHOOSE i \in 1..Len(value.items) :
                              value.items[i].key = key].value)
    ELSE None

\* JavaScript truthiness of an optional JSON value: undefined, null, "" and
\* 0 are falsy; and a || b.
TruthyJson(o) ==
    /\ IsSome(o)
    /\ CASE Get(o).t = "string" -> Get(o).s # ""
         [] Get(o).t = "number" -> Get(o).s # "0"
         [] Get(o).t = "null" -> FALSE
         [] OTHER -> TRUE
OrJson(a, b) == IF TruthyJson(a) THEN a ELSE b

\* typeof value
TypeOf(value) == IF value.t = "null" THEN "object" ELSE value.t

Quote(text) == "\"" \o text \o "\""

\* JSON.stringify(value)
RECURSIVE JSONstringify(_)
RECURSIVE StringifyFields(_)
StringifyFields(fields) ==
    IF fields = <<>> THEN ""
    ELSE Quote(Head(fields).key) \o ":" \o JSONstringify(Head(fields).value)
         \o (IF Tail(fields) = <<>> THEN ""
             ELSE "," \o StringifyFields(Tail(fields)))
JSONstringify(value) ==
    CASE value.t = "string" -> Quote(value.s)
      [] value.t = "object" -> "{" \o StringifyFields(value.items) \o "}"
      [] OTHER -> value.s

\* result.data?.outputs
DataOutputs(result) ==
    LET data == Lookup(result, "data") IN
    IF IsSome(data) THEN Lookup(Get(data), "outputs") ELSE None

\* result.data?.outputs || result.result || result
extractOutputContent(result) ==
    Get(OrJson(OrJson(DataOutputs(result), Lookup(result, "result")),
               Some(result)))

\* A thrown value: an Error object, with an identity and a message, or any
\* other value.
ErrorObject(id, message) ==
    [isError |-> TRUE, id |-> id, message |-> message, value |-> JNull]
NonError(value) ==
    [isError |-> FALSE, id |-> "", message |-> "", value |-> value]

\* `${value}` of a JSON value.
TemplateString(value) ==
    IF value.t = "object" THEN "[object Object]" ELSE value.s

\* A name as one string.
RECURSIVE NameText(_)
NameText(name) ==
    IF name = <<>> THEN "" ELSE Head(name) \o NameText(Tail(name))

\* `Unknown error occurred while executing tool '${toolName}': ${error}`
UnknownErrorMessage(toolName, value) ==
    "Unknown error occurred while executing tool '" \o NameText(toolName)
        \o "': " \o TemplateString(value)

\* A wrapExecutionError that makes a new Error of whatever it is given.
wrapExecutionError_AlwaysNew(error, toolName) ==
    ErrorObject("new", UnknownErrorMessage(toolName,
                    IF error.isError THEN JStr("Error: " \o error.message)
                    ELSE error.value))

\* WorkflowManager.wrapExecutionError(error, toolName)
wrapExecutionError(error, toolName) ==
    IF error.isError THEN error
    ELSE ErrorObject("new", UnknownErrorMessage(toolName, error.value))

\* The catch block of handleCallToolRequest: what it throws for what it
\* caught.
CallToolError(error, toolName) ==
    IF error.isError THEN error
    ELSE ErrorObject("new", UnknownErrorMessage(toolName, error.value))

\* A content envelope whose text is the output as it is, structured or not.
ContentOf_NeverSerializes(outputContent) ==
    << [type |-> "text", text |-> outputContent] >>

\* { content: [{ type: "text", text: typeof outputContent === 'object'
\*                       ? JSON.stringify(outputContent) : outputContent }] }
ContentOf(outputContent) ==
    << [type |-> "text",
        text |-> IF TypeOf(outputContent) = "object"
                 THEN JStr(JSONstringify(outputContent))
                 ELSE outputContent] >>

(* ------------------------------- state -------------------------------- *)
VARIABLES
    baseUrl,            \* EnvConfig.baseUrl ("" when DIFY_BASE_URL is unset)
    apiKeys,            \* EnvConfig.apiKeys, in configured order
    phase,              \* "Uninitialized", "Initializing", "Ready" or "Failed"
    initError,          \* the error initialize() ended with, or "none"
    idx,                \* position of the API key the discovery loop is at
    awaiting,           \* the Connector call the loop is suspended on
    pendingInfo,        \* infoData of the current key, once fetchInfo returned
    fetchOutcome,       \* per key position: "none", "ok", "infoFailed", "paramsFailed"
    workflowApiKeyMap,  \* DifyService.workflowApiKeyMap: name -> API key
    results,            \* the WorkflowData collected by the discovery loop
    success,            \* processBatchApiKeys' success counter
    failed,             \* processBatchApiKeys' failed counter
    workflowTools,      \* WorkflowManager.workflowTools
    lastCall,           \* the last executeWorkflow request and what it did
    connectorOps,       \* the Connector operations called so far
    fetchLog,           \* the discovery requests issued and ended, in order
    uqBase,             \* name resolver harness: baseName
    uqNames,            \* name resolver harness: workflowNames
    uqResult,           \* name resolver harness: optional result
    schIn,              \* normaliser harness: paramsData
    schOut,             \* normaliser harness: optional result
    wfResponse,         \* dispatcher harness: what runWorkflow resolved to
    wfReturn,           \* dispatcher harness: optional [output, content]
    wfRejection,        \* dispatcher harness: optional [toolName, reason]
                        \* runWorkflow rejected with
    wfThrown,           \* dispatcher harness: optional error the caller got
    toolsReturned,      \* the array the last getTools() call handed out
    schAgain,           \* normaliser harness: result of a second call
    cnRequest,          \* Connector harness: operation, API key and exchange
    cnResult,           \* Connector harness: optional outcome and log
    cfgEnv,             \* configuration harness: the process environment
    cfgResult,          \* configuration harness: optional outcome
    callerMaps,         \* the maps a caller of the service holds, and the
                        \* last operation on the service's map
    server              \* how far main() has come, and the exit code

registryVars == <<baseUrl, apiKeys, phase, initError, idx, awaiting, pendingInfo,
                  fetchOutcome, workflowApiKeyMap, results, success, failed,
                  workflowTools, lastCall, connectorOps, fetchLog>>
uqVars == <<uqBase, uqNames, uqResult>>
schemaVars == <<schIn, schOut>>
outputVars == <<wfResponse, wfReturn, wfRejection, wfThrown>>
otherSideVars == <<schAgain, cnRequest, cnResult, cfgEnv, cfgResult>>
outerVars == <<callerMaps, server>>
sideVars == <<toolsReturned, otherSideVars, outerVars>>
harnessVars == <<uqVars, schemaVars, outputVars, sideVars>>
vars == <<registryVars, harnessVars>>

(* ------------------------------- inputs ------------------------------- *)
\* The i-th configured API key: "k1", "k2", ...
KeyAt(i) == "k" \o ToString(i)

search == <<"s", "e", "a", "r", "c", "h">>
search1 == search \o <<"-", "1">>
search2 == search \o <<"-", "2">>
searchX == search \o <<"-", "x">>
dify == <<"d", "i", "f", "y">>

\* Descriptors a backend may answer /info with.
InfoChoices ==
    { [name |-> None, description |-> None],
      [name |-> Some(search), description |-> Some("Search the web")],
      [name |-> Some(search1), description |-> None] }

\* parameters: [{name: "query", type: "string", required: true}]
LegacyQuery ==
    [user_input_form |-> None,
     parameters |-> Some([shape |-> "array",
                          items |-> << [name |-> Some("query"),
                                        type |-> Some("string"),
                                        description |-> None,
                                        required |-> TRUE] >>])]
\* parameters: []
EmptyParameters ==
    [user_input_form |-> None,
     parameters |-> Some([shape |-> "array", items |-> <<>>])]

\* Parameter schemas a backend may answer /parameters with.
ParamsChoices == {LegacyQuery, EmptyParameters}

\* A /parameters answer with neither field.
NoParamsData == [user_input_form |-> None, parameters |-> None]

\* Tool names a caller may ask for, besides the listed and registered ones.
RequestNames == {search, search1, search2, searchX, dify, DefaultWorkflowName}

\* request.params.arguments: undefined, {} or {query: "tla"}.  A mapping is
\* the set of its <<key, value>> pairs.
ArgumentChoices == {None, Some({}), Some({<<"query", "tla">>})}

\* lastCall before any tools/call request.  name and arguments are the
\* request's; executed is what executeWorkflow was called with, apiKey the
\* key runWorkflow was given, errorRequest the request a MissingArguments
\* error carries.
NoCall == [name |-> <<>>, arguments |-> None, registered |-> FALSE,
           listed |-> FALSE, executed |-> None, result |-> "none",
           apiKey |-> None, errorRequest |-> None]

(* ------------------------------- config ------------------------------- *)
\* EnvConfig.validate()
validate == baseUrl # "" /\ Len(apiKeys) # 0

(* ---------------------------- DifyService ----------------------------- *)
MapGet(map, name) == IF name \in DOMAIN map THEN Some(map[name]) ELSE None

\* A registration that keeps the first key stored under a name.
registerWorkflow_KeepFirst(map, workflowName, apiKey) ==
    [n \in (DOMAIN map) \cup {workflowName} |->
        IF n \in DOMAIN map THEN map[n] ELSE apiKey]

\* workflowApiKeyMap.set(workflowName, apiKey)
registerWorkflow(map, workflowName, apiKey) ==
    [n \in (DOMAIN map) \cup {workflowName} |->
        IF n = workflowName THEN apiKey ELSE map[n]]

\* map.get(baseName) || map.get(workflowName)
getApiKeyForWorkflow(map, workflowName) ==
    OrStr(MapGet(map, SplitDashFirst(workflowName)), MapGet(map, workflowName))

ToolNames(tools) == {tools[i].name : i \in 1..Len(tools)}

\* The end of fetchAllWorkflowInfo and the rest of WorkflowManager.initialize,
\* run once the loop over the API keys is over.
FinishInitialize(newResults) ==
    IF Len(newResults) = 0
    THEN /\ phase' = "Failed"
         /\ initError' = "NoBackendsAvailable"
         /\ workflowTools' = workflowTools
    ELSE LET tools == convertDifyWorkflowToMCPTools(newResults) IN
         /\ workflowTools' = tools
         /\ IF Len(tools) = 0
            THEN phase' = "Failed" /\ initError' = "NoToolsGenerated"
            ELSE phase' = "Ready" /\ initError' = "none"

\* An entry of fetchLog: the request for the API key at this position was
\* "issued", or it "returned" or "failed".
FetchEvent(position, operation, event) ==
    [position |-> position, operation |-> operation, event |-> event]

\* The loop moves on to the next API key, or ends.
\* ended is how the request the loop was suspended on came back.
NextKeyOrFinish(newResults, ended) ==
    IF idx < Len(apiKeys)
    THEN /\ idx' = idx + 1
         /\ awaiting' = "fetchInfo"
         /\ connectorOps' = connectorOps \cup {"fetchInfo"}
         /\ fetchLog' = fetchLog \o <<ended,
                                       FetchEvent(idx + 1, "fetchInfo", "issued")>>
         /\ UNCHANGED <<phase, initError, workflowTools>>
    ELSE /\ idx' = idx
         /\ awaiting' = "none"
         /\ connectorOps' = connectorOps
         /\ fetchLog' = Append(fetchLog, ended)
         /\ FinishInitialize(newResults)

\* An initialize() that neither validates the configuration nor looks at the
\* number of API keys before it enters the discovery loop.
Initialize_NoCheck ==
    /\ phase = "Uninitialized"
    /\ IF Len(apiKeys) = 0
       THEN /\ FinishInitialize(results)
            /\ UNCHANGED <<idx, awaiting, connectorOps, fetchLog>>
       ELSE /\ phase' = "Initializing"
            /\ initError' = "none"
            /\ idx' = 1
            /\ awaiting' = "fetchInfo"
            /\ connectorOps' = connectorOps \cup {"fetchInfo"}
            /\ fetchLog' = Append(fetchLog, FetchEvent(1, "fetchInfo", "issued"))
            /\ UNCHANGED workflowTools
    /\ UNCHANGED <<baseUrl, apiKeys, pendingInfo, fetchOutcome, workflowApiKeyMap,
                   results, success, failed, lastCall, harnessVars>>

\* An initialize() that issues the fetchInfo of every API key at once.
Initialize_AllAtOnce ==
    /\ phase = "Uninitialized"
    /\ IF ~validate
       THEN /\ phase' = "Failed"
            /\ initError' = "ConfigurationInvalid"
            /\ UNCHANGED <<idx, awaiting, connectorOps, fetchLog>>
       ELSE IF Len(apiKeys) = 0
       THEN /\ phase' = "Failed"
            /\ initError' = "NoApiKeys"
            /\ UNCHANGED <<idx, awaiting, connectorOps, fetchLog>>
       ELSE /\ phase' = "Initializing"
            /\ initError' = "none"
            /\ idx' = 1
            /\ awaiting' = "fetchInfo"
            /\ connectorOps' = connectorOps \cup {"fetchInfo"}
            /\ fetchLog' = fetchLog \o [i \in 1..Len(apiKeys) |->
                                            FetchEvent(i, "fetchInfo", "issued")]
    /\ UNCHANGED <<baseUrl, apiKeys, pendingInfo, fetchOutcome, workflowApiKeyMap,
                   results, success, failed, workflowTools, lastCall, harnessVars>>

\* WorkflowManager.initialize() up to its first suspension: the configuration
\* check, then the first fetchInfo is issued.
Initialize ==
    /\ phase = "Uninitialized"
    /\ IF ~validate
       THEN /\ phase' = "Failed"
            /\ initError' = "ConfigurationInvalid"
            /\ UNCHANGED <<idx, awaiting, connectorOps, fetchLog>>
       ELSE IF Len(apiKeys) = 0
       THEN /\ phase' = "Failed"
            /\ initError' = "NoApiKeys"
            /\ UNCHANGED <<idx, awaiting, connectorOps, fetchLog>>
       ELSE /\ phase' = "Initializing"
            /\ initError' = "none"
            /\ idx' = 1
            /\ awaiting' = "fetchInfo"
            /\ connectorOps' = connectorOps \cup {"fetchInfo"}
            /\ fetchLog' = Append(fetchLog, FetchEvent(1, "fetchInfo", "issued"))
    /\ UNCHANGED <<baseUrl, apiKeys, pendingInfo, fetchOutcome, workflowApiKeyMap,
                   results, success, failed, workflowTools, lastCall, harnessVars>>

\* client.fetchInfo(apiKey) returns a descriptor.
FetchInfoOk ==
    /\ phase = "Initializing" /\ awaiting = "fetchInfo"
    /\ \E infoData \in InfoChoices : pendingInfo' = Some(infoData)
    /\ awaiting' = "fetchParameters"
    /\ connectorOps' = connectorOps \cup {"fetchParameters"}
    /\ fetchLog' = fetchLog \o <<FetchEvent(idx, "fetchInfo", "returned"),
                                  FetchEvent(idx, "fetchParameters", "issued")>>
    /\ UNCHANGED <<baseUrl, apiKeys, phase, initError, idx, fetchOutcome,
                   workflowApiKeyMap, results, success, failed, workflowTools,
                   lastCall, harnessVars>>

\* A discovery loop that gives up at the first key whose fetchInfo fails.
FetchInfoFail_Abort ==
    /\ phase = "Initializing" /\ awaiting = "fetchInfo"
    /\ fetchOutcome' = [fetchOutcome EXCEPT ![idx] = "infoFailed"]
    /\ failed' = failed + 1
    /\ pendingInfo' = None
    /\ awaiting' = "none"
    /\ FinishInitialize(results)
    /\ fetchLog' = Append(fetchLog, FetchEvent(idx, "fetchInfo", "failed"))
    /\ UNCHANGED <<baseUrl, apiKeys, idx, workflowApiKeyMap, results, success,
                   connectorOps,
                   lastCall, harnessVars>>

\* client.fetchInfo(apiKey) throws: the key is counted as failed and skipped.
FetchInfoFail ==
    /\ phase = "Initializing" /\ awaiting = "fetchInfo"
    /\ fetchOutcome' = [fetchOutcome EXCEPT ![idx] = "infoFailed"]
    /\ failed' = failed + 1
    /\ pendingInfo' = None
    /\ NextKeyOrFinish(results, FetchEvent(idx, "fetchInfo", "failed"))
    /\ UNCHANGED <<baseUrl, apiKeys, workflowApiKeyMap, results, success,
                   lastCall, harnessVars>>

\* A loop that puts the newest workflow data in front of the collected ones.
FetchParametersOk_Prepends ==
    /\ phase = "Initializing" /\ awaiting = "fetchParameters"
    /\ \E paramsData \in ParamsChoices :
         LET infoData == Get(pendingInfo)
             newResults == <<[apiKey |-> apiKeys[idx],
                              infoData |-> infoData,
                              paramsData |-> paramsData]>> \o results
         IN /\ workflowApiKeyMap' =
                   registerWorkflow(workflowApiKeyMap, BaseNameOf(infoData),
                                    apiKeys[idx])
            /\ results' = newResults
            /\ NextKeyOrFinish(newResults,
                               FetchEvent(idx, "fetchParameters", "returned"))
    /\ success' = success + 1
    /\ fetchOutcome' = [fetchOutcome EXCEPT ![idx] = "ok"]
    /\ pendingInfo' = None
    /\ UNCHANGED <<baseUrl, apiKeys, failed, lastCall, harnessVars>>

\* client.fetchParameters(apiKey) returns: the workflow is registered under
\* its descriptor name and its data collected.
FetchParametersOk ==
    /\ phase = "Initializing" /\ awaiting = "fetchParameters"
    /\ \E paramsData \in ParamsChoices :
         LET infoData == Get(pendingInfo)
             newResults == Append(results, [apiKey |-> apiKeys[idx],
                                            infoData |-> infoData,
                                            paramsData |-> paramsData])
         IN /\ workflowApiKeyMap' =
                   registerWorkflow(workflowApiKeyMap, BaseNameOf(infoData),
                                    apiKeys[idx])
            /\ results' = newResults
            /\ NextKeyOrFinish(newResults,
                               FetchEvent(idx, "fetchParameters", "returned"))
    /\ success' = success + 1
    /\ fetchOutcome' = [fetchOutcome EXCEPT ![idx] = "ok"]
    /\ pendingInfo' = None
    /\ UNCHANGED <<baseUrl, apiKeys, failed, lastCall, harnessVars>>

\* A discovery loop that registers the name although fetchParameters failed.
FetchParametersFail_Registers ==
    /\ phase = "Initializing" /\ awaiting = "fetchParameters"
    /\ workflowApiKeyMap' =
           registerWorkflow(workflowApiKeyMap, BaseNameOf(Get(pendingInfo)),
                            apiKeys[idx])
    /\ fetchOutcome' = [fetchOutcome EXCEPT ![idx] = "paramsFailed"]
    /\ failed' = failed + 1
    /\ pendingInfo' = None
    /\ NextKeyOrFinish(results, FetchEvent(idx, "fetchParameters", "failed"))
    /\ UNCHANGED <<baseUrl, apiKeys, results, success, lastCall, harnessVars>>

\* A loop that does not count a key whose fetchParameters failed.
FetchParametersFail_Uncounted ==
    /\ phase = "Initializing" /\ awaiting = "fetchParameters"
    /\ fetchOutcome' = [fetchOutcome EXCEPT ![idx] = "paramsFailed"]
    /\ pendingInfo' = None
    /\ NextKeyOrFinish(results, FetchEvent(idx, "fetchParameters", "failed"))
    /\ UNCHANGED <<baseUrl, apiKeys, workflowApiKeyMap, results, success,
                   failed, lastCall, harnessVars>>

\* A loop that collects the descriptor of a key although its fetchParameters
\* failed, with an empty parameter schema.
FetchParametersFail_Collects ==
    /\ phase = "Initializing" /\ awaiting = "fetchParameters"
    /\ LET newResults == Append(results, [apiKey |-> apiKeys[idx],
                                          infoData |-> Get(pendingInfo),
                                          paramsData |-> EmptyParameters])
       IN /\ results' = newResults
          /\ NextKeyOrFinish(newResults,
                             FetchEvent(idx, "fetchParameters", "failed"))
    /\ fetchOutcome' = [fetchOutcome EXCEPT ![idx] = "paramsFailed"]
    /\ failed' = failed + 1
    /\ pendingInfo' = None
    /\ UNCHANGED <<baseUrl, apiKeys, workflowApiKeyMap, success, lastCall,
                   harnessVars>>

\* client.fetchParameters(apiKey) throws: the key is counted as failed and
\* skipped, its descriptor dropped.
FetchParametersFail ==
    /\ phase = "Initializing" /\ awaiting = "fetchParameters"
    /\ fetchOutcome' = [fetchOutcome EXCEPT ![idx] = "paramsFailed"]
    /\ failed' = failed + 1
    /\ pendingInfo' = None
    /\ NextKeyOrFinish(results, FetchEvent(idx, "fetchParameters", "failed"))
    /\ UNCHANGED <<baseUrl, apiKeys, workflowApiKeyMap, results, success,
                   lastCall, harnessVars>>

(* -------------------------- WorkflowManager --------------------------- *)
\* A getTools() that hands out the manager's own array.
getTools_Shared == [items |-> workflowTools, shared |-> TRUE]

\* getTools(): [...this.workflowTools], a new array of the same tools.
\* shared tells whether the array handed out is the manager's own.
getTools == [items |-> workflowTools, shared |-> FALSE]

\* The tools/list handler: the caller receives what getTools() returns.
ListTools ==
    /\ toolsReturned' = Some(getTools)
    /\ UNCHANGED <<registryVars, uqVars, schemaVars, outputVars, otherSideVars,
                   outerVars>>

\* The caller removes the last (pop) or the first (shift) element of the
\* array it was handed.  An array that is the manager's own changes for the
\* manager too.
MutateReturnedList ==
    /\ IsSome(toolsReturned)
    /\ Len(Get(toolsReturned).items) > 0
    /\ \E op \in {"pop", "shift"} :
         LET array == Get(toolsReturned)
             items == IF op = "pop"
                      THEN SubSeq(array.items, 1, Len(array.items) - 1)
                      ELSE Tail(array.items)
         IN /\ toolsReturned' = Some([array EXCEPT !.items = items])
            /\ workflowTools' = IF array.shared THEN items ELSE workflowTools
    /\ UNCHANGED <<baseUrl, apiKeys, phase, initError, idx, awaiting, pendingInfo,
                   fetchOutcome, workflowApiKeyMap, results, success, failed,
                   lastCall, connectorOps, fetchLog, uqVars, schemaVars,
                   outputVars,
                   otherSideVars, outerVars>>

CallableNames == RequestNames \cup ToolNames(workflowTools)
                              \cup DOMAIN workflowApiKeyMap

\* A handler that takes missing arguments for an empty mapping and goes on.
CallToolMissingArguments_Defaults ==
    /\ phase # "Initializing"
    /\ \E toolName \in CallableNames :
         LET apiKey == getApiKeyForWorkflow(workflowApiKeyMap, toolName) IN
         /\ lastCall' = [name |-> toolName,
                         arguments |-> None,
                         registered |-> toolName \in DOMAIN workflowApiKeyMap,
                         listed |-> toolName \in ToolNames(workflowTools),
                         executed |-> Some([toolName |-> toolName,
                                            params |-> {}]),
                         result |-> IF TruthyStr(apiKey) THEN "ok"
                                    ELSE "UnknownTool",
                         apiKey |-> IF TruthyStr(apiKey) THEN apiKey ELSE None,
                         errorRequest |-> None]
         /\ connectorOps' = IF TruthyStr(apiKey)
                            THEN connectorOps \cup {"runWorkflow"}
                            ELSE connectorOps
    /\ UNCHANGED <<baseUrl, apiKeys, phase, initError, idx, awaiting, pendingInfo,
                   fetchOutcome, workflowApiKeyMap, results, success, failed,
                   workflowTools, fetchLog, harnessVars>>

\* handleCallToolRequest when request.params.arguments is undefined: the
\* error carries the request and executeWorkflow is not called.
CallToolMissingArguments ==
    /\ phase # "Initializing"
    /\ \E toolName \in CallableNames :
         lastCall' = [name |-> toolName,
                      arguments |-> None,
                      registered |-> toolName \in DOMAIN workflowApiKeyMap,
                      listed |-> toolName \in ToolNames(workflowTools),
                      executed |-> None,
                      result |-> "MissingArguments",
                      apiKey |-> None,
                      errorRequest |-> Some([name |-> toolName,
                                             arguments |-> None])]
    /\ UNCHANGED <<baseUrl, apiKeys, phase, initError, idx, awaiting, pendingInfo,
                   fetchOutcome, workflowApiKeyMap, results, success, failed,
                   workflowTools, connectorOps, fetchLog, harnessVars>>

\* handleCallToolRequest with arguments -> executeWorkflow(toolName, params)
\* when runWorkflow finds no API key.
ExecuteWorkflowUnknown ==
    /\ phase # "Initializing"
    /\ \E toolName \in CallableNames, arguments \in ArgumentChoices \ {None} :
         /\ ~TruthyStr(getApiKeyForWorkflow(workflowApiKeyMap, toolName))
         /\ lastCall' = [name |-> toolName,
                         arguments |-> arguments,
                         registered |-> toolName \in DOMAIN workflowApiKeyMap,
                         listed |-> toolName \in ToolNames(workflowTools),
                         executed |-> Some([toolName |-> toolName,
                                            params |-> Get(arguments)]),
                         result |-> "UnknownTool",
                         apiKey |-> None,
                         errorRequest |-> None]
    /\ UNCHANGED connectorOps
    /\ UNCHANGED <<baseUrl, apiKeys, phase, initError, idx, awaiting, pendingInfo,
                   fetchOutcome, workflowApiKeyMap, results, success, failed,
                   workflowTools, fetchLog, harnessVars>>

\* A runWorkflow that forgets the workflow whose run failed.
ExecuteWorkflowRun_Evicts ==
    /\ phase # "Initializing"
    /\ \E toolName \in CallableNames, arguments \in ArgumentChoices \ {None},
          outcome \in {"ok", "ConnectorError"} :
         LET apiKey == getApiKeyForWorkflow(workflowApiKeyMap, toolName) IN
         /\ TruthyStr(apiKey)
         /\ lastCall' = [name |-> toolName,
                         arguments |-> arguments,
                         registered |-> toolName \in DOMAIN workflowApiKeyMap,
                         listed |-> toolName \in ToolNames(workflowTools),
                         executed |-> Some([toolName |-> toolName,
                                            params |-> Get(arguments)]),
                         result |-> outcome,
                         apiKey |-> apiKey,
                         errorRequest |-> None]
         /\ workflowApiKeyMap' =
                IF outcome = "ok" THEN workflowApiKeyMap
                ELSE [n \in {k \in DOMAIN workflowApiKeyMap :
                                workflowApiKeyMap[k] # Get(apiKey)} |->
                         workflowApiKeyMap[n]]
    /\ connectorOps' = connectorOps \cup {"runWorkflow"}
    /\ UNCHANGED <<baseUrl, apiKeys, phase, initError, idx, awaiting, pendingInfo,
                   fetchOutcome, results, success, failed,
                   workflowTools, fetchLog, harnessVars>>

\* handleCallToolRequest with arguments -> executeWorkflow(toolName, params)
\* when an API key is found: the Connector's runWorkflow is called with it
\* and returns or throws.
ExecuteWorkflowRun ==
    /\ phase # "Initializing"
    /\ \E toolName \in CallableNames, arguments \in ArgumentChoices \ {None},
          outcome \in {"ok", "ConnectorError"} :
         LET apiKey == getApiKeyForWorkflow(workflowApiKeyMap, toolName) IN
         /\ TruthyStr(apiKey)
         /\ lastCall' = [name |-> toolName,
                         arguments |-> arguments,
                         registered |-> toolName \in DOMAIN workflowApiKeyMap,
                         listed |-> toolName \in ToolNames(workflowTools),
                         executed |-> Some([toolName |-> toolName,
                                            params |-> Get(arguments)]),
                         result |-> outcome,
                         apiKey |-> apiKey,
                         errorRequest |-> None]
    /\ connectorOps' = connectorOps \cup {"runWorkflow"}
    /\ UNCHANGED <<baseUrl, apiKeys, phase, initError, idx, awaiting, pendingInfo,
                   fetchOutcome, workflowApiKeyMap, results, success, failed,
                   workflowTools, fetchLog, harnessVars>>

(* --------------------------- specification ---------------------------- *)
\* The harness of the name resolver and of the normaliser, not in use.
NamesIdle == uqBase = <<>> /\ uqNames = {} /\ uqResult = None
SchemaIdle == schIn = NoParamsData /\ schOut = None
OutputIdle ==
    /\ wfResponse = JObj(<<>>)
    /\ wfReturn = None
    /\ wfRejection = None
    /\ wfThrown = None
\* No caller holds a map, and no operation on the map was called.
NoCallerMaps ==
    [returned |-> None, argument |-> None, last |-> "none", before |-> <<>>]
\* main() has not been entered.
NotStarted ==
    [stage |-> "NotStarted", handlers |-> FALSE, connected |-> FALSE,
     exitCode |-> None]
OuterIdle == callerMaps = NoCallerMaps /\ server = NotStarted
SideIdle ==
    /\ toolsReturned = None
    /\ schAgain = None
    /\ cnRequest = None
    /\ cnResult = None
    /\ cfgEnv = None
    /\ cfgResult = None
    /\ OuterIdle

\* A bridge that was given no configuration and never started.
RegistryIdle ==
    /\ baseUrl = ""
    /\ apiKeys = <<>>
    /\ phase = "Uninitialized"
    /\ initError = "none"
    /\ idx = 0
    /\ awaiting = "none"
    /\ pendingInfo = None
    /\ fetchOutcome = <<>>
    /\ workflowApiKeyMap = <<>>
    /\ results = <<>>
    /\ success = 0
    /\ failed = 0
    /\ workflowTools = <<>>
    /\ lastCall = NoCall
    /\ connectorOps = {}
    /\ fetchLog = <<>>

Init ==
    /\ baseUrl \in {"", "https://dify.example/v1"}
    /\ \E n \in 0..MaxKeys : apiKeys = [i \in 1..n |-> KeyAt(i)]
    /\ phase = "Uninitialized"
    /\ initError = "none"
    /\ idx = 0
    /\ awaiting = "none"
    /\ pendingInfo = None
    /\ fetchOutcome = [i \in 1..Len(apiKeys) |-> "none"]
    /\ workflowApiKeyMap = <<>>
    /\ results = <<>>
    /\ success = 0
    /\ failed = 0
    /\ workflowTools = <<>>
    /\ lastCall = NoCall
    /\ connectorOps = {}
    /\ fetchLog = <<>>
    /\ NamesIdle
    /\ SchemaIdle
    /\ OutputIdle
    /\ SideIdle

Next ==
    \/ Initialize
    \/ FetchInfoOk
    \/ FetchInfoFail
    \/ FetchParametersOk
    \/ FetchParametersFail
    \/ CallToolMissingArguments
    \/ ExecuteWorkflowUnknown
    \/ ExecuteWorkflowRun

Spec == Init /\ [][Next]_vars

(* ------------------- listing next to discovery and calls -------------- *)
\* The list operation is explored with one API key fewer.
ListingKeys == MaxKeys - 1

InitListing ==
    /\ baseUrl \in {"", "https://dify.example/v1"}
    /\ \E n \in 0..ListingKeys : apiKeys = [i \in 1..n |-> KeyAt(i)]
    /\ phase = "Uninitialized"
    /\ initError = "none"
    /\ idx = 0
    /\ awaiting = "none"
    /\ pendingInfo = None
    /\ fetchOutcome = [i \in 1..Len(apiKeys) |-> "none"]
    /\ workflowApiKeyMap = <<>>
    /\ results = <<>>
    /\ success = 0
    /\ failed = 0
    /\ workflowTools = <<>>
    /\ lastCall = NoCall
    /\ connectorOps = {}
    /\ fetchLog = <<>>
    /\ NamesIdle
    /\ SchemaIdle
    /\ OutputIdle
    /\ SideIdle

NextListing ==
    \/ Initialize
    \/ FetchInfoOk
    \/ FetchInfoFail
    \/ FetchParametersOk
    \/ FetchParametersFail
    \/ CallToolMissingArguments
    \/ ExecuteWorkflowUnknown
    \/ ExecuteWorkflowRun
    \/ ListTools
    \/ MutateReturnedList

SpecListing == InitListing /\ [][NextListing]_vars

(* ------------- the registry under its hooks and a second initialize --- *)
\* API keys configured where the hooks are explored, and the longest
\* fetchLog a further initialize() is started with.
MaxHookKeys == 1
MaxLogged == 6

\* Maps a caller may hand to setWorkflowApiKeyMap.
MapChoices == {<<>>, (search :> "k1"), (dify :> "k9")}

\* map.forEach((value, key) => target.set(key, value))
SetAll(target, map) ==
    [n \in (DOMAIN target) \cup (DOMAIN map) |->
        IF n \in DOMAIN map THEN map[n] ELSE target[n]]

\* The map without the entry under name.
MapDelete(map, name) == [n \in (DOMAIN map) \ {name} |-> map[n]]

\* A setter that does not clear the map first.
setWorkflowApiKeyMap_Merges(current, map) == SetAll(current, map)

\* setWorkflowApiKeyMap(map): this.workflowApiKeyMap.clear(), then every
\* entry of the argument is set.  current is the map before the call.
setWorkflowApiKeyMap(current, map) == SetAll(<<>>, map)

\* A getter that hands out the service's own map.
getWorkflowApiKeyMap_Shared == [entries |-> workflowApiKeyMap, shared |-> TRUE]

\* getWorkflowApiKeyMap(): new Map(this.workflowApiKeyMap).  shared tells
\* whether the map handed out is the service's own.
getWorkflowApiKeyMap == [entries |-> workflowApiKeyMap, shared |-> FALSE]

\* What is left unchanged by an operation on the map.
MapFrame ==
    <<baseUrl, apiKeys, phase, initError, idx, awaiting, pendingInfo,
      fetchOutcome, results, success, failed, workflowTools, lastCall,
      connectorOps, fetchLog, uqVars, schemaVars, outputVars, toolsReturned,
      otherSideVars, server>>

\* clearWorkflowApiKeyMap()
ClearWorkflowApiKeyMap ==
    /\ workflowApiKeyMap' = <<>>
    /\ callerMaps' = [callerMaps EXCEPT !.last = "clear"]
    /\ UNCHANGED MapFrame

\* setWorkflowApiKeyMap(map), the caller keeping the map it passed.
SetWorkflowApiKeyMap ==
    /\ \E map \in MapChoices :
         /\ workflowApiKeyMap' = setWorkflowApiKeyMap(workflowApiKeyMap, map)
         /\ callerMaps' = [callerMaps EXCEPT
                              !.argument = Some([entries |-> map,
                                                 shared |-> FALSE]),
                              !.last = "set"]
    /\ UNCHANGED MapFrame

\* A caller calls getWorkflowApiKeyMap() and keeps what it returns.
GetWorkflowApiKeyMap ==
    /\ callerMaps' = [callerMaps EXCEPT
                         !.returned = Some(getWorkflowApiKeyMap),
                         !.last = "get",
                         !.before = workflowApiKeyMap]
    /\ UNCHANGED <<workflowApiKeyMap, MapFrame>>

\* What a caller may turn a map it holds into: it sets an entry, or deletes
\* one.
CallerChanges(entries) ==
    {registerWorkflow(entries, searchX, "k0")}
        \cup {MapDelete(entries, n) : n \in DOMAIN entries}

\* The caller changes the map getWorkflowApiKeyMap() returned.  A map that
\* is the service's own changes for the service too.
MutateReturnedMap ==
    /\ IsSome(callerMaps.returned)
    /\ \E entries \in CallerChanges(Get(callerMaps.returned).entries) :
         /\ callerMaps' = [callerMaps EXCEPT
                              !.returned = Some([Get(@) EXCEPT
                                                   !.entries = entries]),
                              !.last = "mutateReturned",
                              !.before = workflowApiKeyMap]
         /\ workflowApiKeyMap' = IF Get(callerMaps.returned).shared
                                 THEN entries ELSE workflowApiKeyMap
    /\ UNCHANGED MapFrame

\* The caller changes the map it passed to setWorkflowApiKeyMap.
MutateArgumentMap ==
    /\ IsSome(callerMaps.argument)
    /\ \E entries \in CallerChanges(Get(callerMaps.argument).entries) :
         /\ callerMaps' = [callerMaps EXCEPT
                              !.argument = Some([Get(@) EXCEPT
                                                   !.entries = entries]),
                              !.last = "mutateArgument",
                              !.before = workflowApiKeyMap]
         /\ workflowApiKeyMap' = IF Get(callerMaps.argument).shared
                                 THEN entries ELSE workflowApiKeyMap
    /\ UNCHANGED MapFrame

\* new DifyService(client, config, logger, initialWorkflowMap): the map
\* starts as a copy of initialWorkflowMap.
InitMap ==
    /\ baseUrl = "https://dify.example/v1"
    /\ apiKeys = <<KeyAt(1)>>
    /\ phase = "Uninitialized"
    /\ initError = "none"
    /\ idx = 0
    /\ awaiting = "none"
    /\ pendingInfo = None
    /\ fetchOutcome = <<"none">>
    /\ workflowApiKeyMap \in
           MapChoices \cup {SetAll((search :> "k1"), (search1 :> "k2"))}
    /\ results = <<>>
    /\ success = 0
    /\ failed = 0
    /\ workflowTools = <<>>
    /\ lastCall = NoCall
    /\ connectorOps = {}
    /\ fetchLog = <<>>
    /\ NamesIdle
    /\ SchemaIdle
    /\ OutputIdle
    /\ SideIdle

NextMap ==
    \/ GetWorkflowApiKeyMap
    \/ MutateReturnedMap
    \/ SetWorkflowApiKeyMap
    \/ MutateArgumentMap
    \/ ClearWorkflowApiKeyMap

SpecMap == InitMap /\ [][NextMap]_vars

\* WorkflowManager.initialize() called again after it has returned or
\* thrown: nothing refuses the call.  fetchAllWorkflowInfo starts from a new
\* results array and new counters, while workflowApiKeyMap and workflowTools
\* are the ones the first call left.
InitializeAgain ==
    /\ phase \in {"Ready", "Failed"}
    /\ Len(fetchLog) < MaxLogged
    /\ results' = <<>>
    /\ success' = 0
    /\ failed' = 0
    /\ pendingInfo' = None
    /\ fetchOutcome' = [i \in 1..Len(apiKeys) |-> "none"]
    /\ IF ~validate
       THEN /\ phase' = "Failed"
            /\ initError' = "ConfigurationInvalid"
            /\ UNCHANGED <<idx, awaiting, connectorOps, fetchLog>>
       ELSE IF Len(apiKeys) = 0
       THEN /\ phase' = "Failed"
            /\ initError' = "NoApiKeys"
            /\ UNCHANGED <<idx, awaiting, connectorOps, fetchLog>>
       ELSE /\ phase' = "Initializing"
            /\ initError' = "none"
            /\ idx' = 1
            /\ awaiting' = "fetchInfo"
            /\ connectorOps' = connectorOps \cup {"fetchInfo"}
            /\ fetchLog' = Append(fetchLog, FetchEvent(1, "fetchInfo", "issued"))
    /\ UNCHANGED <<baseUrl, apiKeys, workflowApiKeyMap, workflowTools, lastCall,
                   harnessVars>>

InitHooks ==
    /\ baseUrl \in {"", "https://dify.example/v1"}
    /\ \E n \in 0..MaxHookKeys : apiKeys = [i \in 1..n |-> KeyAt(i)]
    /\ phase = "Uninitialized"
    /\ initError = "none"
    /\ idx = 0
    /\ awaiting = "none"
    /\ pendingInfo = None
    /\ fetchOutcome = [i \in 1..Len(apiKeys) |-> "none"]
    /\ workflowApiKeyMap = <<>>
    /\ results = <<>>
    /\ success = 0
    /\ failed = 0
    /\ workflowTools = <<>>
    /\ lastCall = NoCall
    /\ connectorOps = {}
    /\ fetchLog = <<>>
    /\ NamesIdle
    /\ SchemaIdle
    /\ OutputIdle
    /\ SideIdle

NextHooks ==
    \/ Initialize
    \/ FetchInfoOk
    \/ FetchInfoFail
    \/ FetchParametersOk
    \/ FetchParametersFail
    \/ CallToolMissingArguments
    \/ ExecuteWorkflowUnknown
    \/ ExecuteWorkflowRun
    \/ InitializeAgain
    \/ ClearWorkflowApiKeyMap
    \/ SetWorkflowApiKeyMap

SpecHooks == InitHooks /\ [][NextHooks]_vars

(* --------------------------- the server process ----------------------- *)
\* process.exit(code): nothing is registered or connected any more.
Exited(code) ==
    [stage |-> "Exited", handlers |-> FALSE, connected |-> FALSE,
     exitCode |-> Some(code)]

\* main() up to its first suspension.  setupServer calls
\* config.validateStrict(): handleConfigError exits with code 1, or throws
\* in the test environment, and then the catch block of main exits with
\* code 1.  With a valid configuration (which has an API key)
\* initializeWorkflowManager calls initialize(), which issues the first
\* fetchInfo.
Main ==
    /\ server.stage = "NotStarted"
    /\ phase = "Uninitialized"
    /\ IF ~validate
       THEN /\ server' = Exited(1)
            /\ UNCHANGED <<phase, initError, idx, awaiting, connectorOps,
                           fetchLog>>
       ELSE /\ server' = [server EXCEPT !.stage = "Initializing"]
            /\ phase' = "Initializing"
            /\ initError' = "none"
            /\ idx' = 1
            /\ awaiting' = "fetchInfo"
            /\ connectorOps' = connectorOps \cup {"fetchInfo"}
            /\ fetchLog' = Append(fetchLog, FetchEvent(1, "fetchInfo", "issued"))
    /\ UNCHANGED <<baseUrl, apiKeys, pendingInfo, fetchOutcome, workflowApiKeyMap,
                   results, success, failed, workflowTools, lastCall, uqVars,
                   schemaVars, outputVars, toolsReturned, otherSideVars,
                   callerMaps>>

ServerFrame ==
    <<registryVars, uqVars, schemaVars, outputVars, toolsReturned,
      otherSideVars, callerMaps>>

\* A setupServer that goes on to register the handlers although initialize
\* threw.
SetupServerResumes_ServesAnyway ==
    /\ server.stage = "Initializing"
    /\ phase \in {"Ready", "Failed"}
    /\ server' = [server EXCEPT !.stage = "HandlersSet", !.handlers = TRUE]
    /\ UNCHANGED ServerFrame

\* setupServer resumes once initialize() has ended.  When it threw,
\* handleInitializationError logs the error and calls process.exit(1);
\* otherwise the server is created and setupRequestHandlers registers the
\* list and the call handler.
SetupServerResumes ==
    /\ server.stage = "Initializing"
    /\ phase \in {"Ready", "Failed"}
    /\ server' = IF phase = "Failed" THEN Exited(1)
                 ELSE [server EXCEPT !.stage = "HandlersSet",
                                     !.handlers = TRUE]
    /\ UNCHANGED ServerFrame

\* main resumes with the server setupServer returned: server.connect.
ConnectTransport ==
    /\ server.stage = "HandlersSet"
    /\ server' = [server EXCEPT !.stage = "Connected", !.connected = TRUE]
    /\ UNCHANGED ServerFrame

\* Requests arrive over the connected transport and go to the handlers.
ServeListTools == server.connected /\ server.handlers /\ ListTools
ServeMissingArguments ==
    server.connected /\ server.handlers /\ CallToolMissingArguments
ServeUnknown == server.connected /\ server.handlers /\ ExecuteWorkflowUnknown
ServeRun == server.connected /\ server.handlers /\ ExecuteWorkflowRun

InitServer ==
    /\ baseUrl \in {"", "https://dify.example/v1"}
    /\ \E n \in 0..ListingKeys : apiKeys = [i \in 1..n |-> KeyAt(i)]
    /\ phase = "Uninitialized"
    /\ initError = "none"
    /\ idx = 0
    /\ awaiting = "none"
    /\ pendingInfo = None
    /\ fetchOutcome = [i \in 1..Len(apiKeys) |-> "none"]
    /\ workflowApiKeyMap = <<>>
    /\ results = <<>>
    /\ success = 0
    /\ failed = 0
    /\ workflowTools = <<>>
    /\ lastCall = NoCall
    /\ connectorOps = {}
    /\ fetchLog = <<>>
    /\ NamesIdle
    /\ SchemaIdle
    /\ OutputIdle
    /\ SideIdle

NextServer ==
    \/ Main
    \/ FetchInfoOk
    \/ FetchInfoFail
    \/ FetchParametersOk
    \/ FetchParametersFail
    \/ SetupServerResumes
    \/ ConnectTransport
    \/ ServeListTools
    \/ ServeMissingArguments
    \/ ServeUnknown
    \/ ServeRun

SpecServer == InitServer /\ [][NextServer]_vars

(* ------------------- name resolver on its own ------------------------- *)
\* {base, base-1, ..., base-n}: a name and its first n suffixes, all taken.
TakenRun(baseName, n) ==
    {baseName} \cup {SuffixedName(baseName, k) : k \in 1..n}

NamePool == {search, search1, search2, search1 \o <<"-", "1">>,
             DefaultWorkflowName, DefaultWorkflowName \o <<"-", "1">>}

ResolverBases == {search, search1, DefaultWorkflowName}

\* Sets of used names offered to the resolver: any part of the pool, and runs
\* of taken suffixes with or without one gap.
ResolverNameSets(baseName) ==
    (SUBSET NamePool)
    \cup {TakenRun(baseName, n) : n \in 0..MaxTaken}
    \cup {TakenRun(baseName, n) \ {SuffixedName(baseName, g)} :
              n \in 1..MaxTaken, g \in {2, 10}}

InitNames ==
    /\ uqBase \in ResolverBases
    /\ uqNames \in ResolverNameSets(uqBase)
    /\ uqResult = None
    /\ RegistryIdle
    /\ SchemaIdle
    /\ OutputIdle
    /\ SideIdle

\* toolName = getUniqueWorkflowName(baseName, workflowNames)
ResolveName ==
    /\ uqResult = None
    /\ uqResult' = Some(getUniqueWorkflowName(uqBase, uqNames))
    /\ UNCHANGED <<uqBase, uqNames, registryVars, schemaVars, outputVars, sideVars>>

SpecNames == InitNames /\ [][ResolveName]_vars

(* --------------------- normaliser on its own -------------------------- *)
\* All sequences over S of length at most n.
SeqsUpTo(S, n) == UNION {[1..k -> S] : k \in 0..n}

\* Component-kind tags: the six the switch names, and two it does not.
ComponentTypes ==
    {"select", "radio", "checkbox", "number", "slider", "switch", "text",
     "unknown"}

\* Field descriptors: labelled or not, required or not, twice the same
\* variable, and without a variable (absent or empty).
FormFields ==
    { [variable |-> Some("query"), label |-> Some("Query"), required |-> TRUE],
      [variable |-> Some("query"), label |-> None, required |-> FALSE],
      [variable |-> Some("limit"), label |-> Some(""), required |-> TRUE],
      [variable |-> None, label |-> Some("Lost"), required |-> TRUE],
      [variable |-> Some(""), label |-> None, required |-> FALSE] }

FormEntries == [componentType : ComponentTypes, field : FormFields]

\* Components: the single-entry mappings, an empty mapping and two mappings
\* with two entries.
FormComponents ==
    {<<e>> : e \in FormEntries}
    \cup { <<>>,
           << [componentType |-> "text",
               field |-> [variable |-> None, label |-> None,
                          required |-> FALSE]],
              [componentType |-> "switch",
               field |-> [variable |-> Some("limit"), label |-> None,
                          required |-> TRUE]] >>,
           << [componentType |-> "checkbox",
               field |-> [variable |-> Some("query"), label |-> Some("Tags"),
                          required |-> TRUE]],
              [componentType |-> "number",
               field |-> [variable |-> Some("query"), label |-> None,
                          required |-> FALSE]] >> }

FormOf(items) == Some([isArray |-> TRUE, items |-> items])
\* user_input_form holding a truthy value that is not an array.
FormNotArray == Some([isArray |-> FALSE, items |-> <<>>])

\* Legacy parameters: named, twice the same name, or without a name (absent
\* or empty); with a declared type or without one.
LegacyParameters ==
    [name : {None, Some(""), Some("query"), Some("limit")},
     type : {None, Some("number"), Some("integer")},
     description : {None, Some("Max results")},
     required : BOOLEAN]

ParametersArray(items) == Some([shape |-> "array", items |-> items])

\* Values of a parameters object: descriptor objects, and one value that is
\* not an object (its content is never read).
ObjectValues ==
    [type : {None, Some("string"), Some("integer")},
     description : {None, Some("Max results")},
     required : BOOLEAN]
NotAnObject == [type |-> None, description |-> None, required |-> FALSE]

ObjectEntries ==
    [key : {"q", "limit", ""}, isObject : {TRUE}, value : ObjectValues]
    \cup [key : {"q", "limit", ""}, isObject : {FALSE}, value : {NotAnObject}]

\* The keys of an object are distinct.
DistinctKeys(o) == \A i, j \in 1..Len(o) : o[i].key = o[j].key => i = j

ParametersObject(items) == Some([shape |-> "object", items |-> items])
ParametersNull == Some([shape |-> "null", items |-> <<>>])
ParametersOther == Some([shape |-> "other", items |-> <<>>])

\* The /parameters answers offered to the normaliser: each shape alone, both
\* shapes together, and neither.
InitSchema ==
    /\ \/ \E k \in 0..MaxEntries : \E f \in [1..k -> FormComponents] :
            schIn = [user_input_form |-> FormOf(f), parameters |-> None]
       \/ \E k \in 0..MaxEntries : \E a \in [1..k -> LegacyParameters] :
            schIn = [user_input_form |-> None,
                     parameters |-> ParametersArray(a)]
       \/ \E k \in 0..MaxEntries : \E o \in [1..k -> ObjectEntries] :
            /\ DistinctKeys(o)
            /\ schIn = [user_input_form |-> None,
                        parameters |-> ParametersObject(o)]
       \/ \E f \in SeqsUpTo(FormComponents, 1),
             a \in SeqsUpTo(LegacyParameters, 1) :
            schIn = [user_input_form |-> FormOf(f),
                     parameters |-> ParametersArray(a)]
       \/ \E u \in {None, FormNotArray, FormOf(<<>>)},
             q \in {None, ParametersNull, ParametersOther,
                    ParametersArray(<<>>), ParametersObject(<<>>)} :
            schIn = [user_input_form |-> u, parameters |-> q]
    /\ schOut = None
    /\ RegistryIdle
    /\ NamesIdle
    /\ OutputIdle
    /\ SideIdle

\* { properties, required } = extractPropertiesFromParameters(paramsData)
NormalizeSchema ==
    /\ schOut = None
    /\ schOut' = Some(extractPropertiesFromParameters(schIn))
    /\ UNCHANGED <<schIn, registryVars, uqVars, outputVars, sideVars>>

\* A second call whose properties and required are the ones the first call
\* filled, not new ones.
NormalizeAgain_SharedAccumulators ==
    /\ IsSome(schOut)
    /\ schAgain = None
    /\ LET first == Get(schOut)
           again == extractPropertiesFromParameters(schIn)
       IN schAgain' =
              Some([properties |->
                        [n \in DOMAIN first.properties
                                   \cup DOMAIN again.properties |->
                            IF n \in DOMAIN again.properties
                            THEN again.properties[n] ELSE first.properties[n]],
                    required |-> first.required \o again.required,
                    diagnostics |-> again.diagnostics])
    /\ UNCHANGED <<schIn, schOut, toolsReturned, cnRequest, cnResult, cfgEnv,
                   cfgResult, outerVars, registryVars, uqVars, outputVars>>

\* extractPropertiesFromParameters(paramsData) called once more with the same
\* paramsData: properties and required are new, empty locals of the call.
NormalizeAgain ==
    /\ IsSome(schOut)
    /\ schAgain = None
    /\ schAgain' = Some(extractPropertiesFromParameters(schIn))
    /\ UNCHANGED <<schIn, schOut, toolsReturned, cnRequest, cnResult, cfgEnv,
                   cfgResult, outerVars, registryVars, uqVars, outputVars>>

NextSchema == NormalizeSchema \/ NormalizeAgain

SpecSchema == InitSchema /\ [][NextSchema]_vars

(* ---------------------- dispatcher on its own ------------------------- *)
AnswerOutputs == JObj(<<Field("answer", JStr("42"))>>)

\* data.outputs: null, {}, an object, and values that are not objects.
OutputsChoices ==
    {JNull, JObj(<<>>), AnswerOutputs, JStr("plain text"), JStr(""),
     JNum("7")}

\* data: absent, null, without outputs, or with outputs.
DataChoices ==
    {None, Some(JNull), Some(JObj(<<>>))}
    \cup {Some(JObj(<<Field("outputs", o)>>)) : o \in OutputsChoices}

\* result: absent, a string, the empty string, null or a number.
ResultChoices ==
    {None, Some(JStr("direct result")), Some(JStr("")), Some(JNull),
     Some(JNum("7"))}

OptionalField(key, o) == IF IsSome(o) THEN <<Field(key, Get(o))>> ELSE <<>>

\* A DifyWorkflowResponse: task_id, data and result, each optional.
Response(taskId, data, result) ==
    JObj(OptionalField("task_id", taskId) \o OptionalField("data", data)
         \o OptionalField("result", result))

\* What runWorkflow may reject with: the Connector's ApiError, its parse
\* error, a string, an object, null.
RejectionChoices ==
    {ErrorObject("e1", "Workflow API error: 500 Internal Server Error"),
     ErrorObject("e2", "Failed to parse Workflow API response: SyntaxError"),
     NonError(JStr("string error")),
     NonError(JObj(<<Field("code", JNum("500"))>>)),
     NonError(JNull)}

InitOutput ==
    /\ \/ /\ \E taskId \in {None, Some(JStr("t-1"))},
                data \in DataChoices, result \in ResultChoices :
               wfResponse = Response(taskId, data, result)
          /\ wfRejection = None
       \/ /\ wfResponse = JObj(<<>>)
          /\ \E toolName \in {search, search1}, reason \in RejectionChoices :
               wfRejection = Some([toolName |-> toolName, reason |-> reason])
    /\ wfReturn = None
    /\ wfThrown = None
    /\ RegistryIdle
    /\ NamesIdle
    /\ SchemaIdle
    /\ SideIdle

\* handleCallToolRequest once runWorkflow resolved: executeWorkflow returns
\* extractOutputContent(result) and the handler wraps it.
CallToolReturns ==
    /\ wfReturn = None
    /\ wfRejection = None
    /\ LET outputContent == extractOutputContent(wfResponse) IN
       wfReturn' = Some([output |-> outputContent,
                         content |-> ContentOf(outputContent)])
    /\ UNCHANGED <<wfResponse, wfRejection, wfThrown, registryVars, uqVars,
                   schemaVars, sideVars>>

\* handleCallToolRequest once runWorkflow rejected: runWorkflowWithKey
\* rethrows the reason, executeWorkflow throws wrapExecutionError of it, and
\* the handler's catch block throws what it caught, or wraps it.
CallToolThrows ==
    /\ wfThrown = None
    /\ IsSome(wfRejection)
    /\ LET toolName == Get(wfRejection).toolName
           error == wrapExecutionError(Get(wfRejection).reason, toolName)
       IN wfThrown' = Some(CallToolError(error, toolName))
    /\ UNCHANGED <<wfResponse, wfReturn, wfRejection, registryVars, uqVars,
                   schemaVars, sideVars>>

NextOutput == CallToolReturns \/ CallToolThrows

SpecOutput == InitOutput /\ [][NextOutput]_vars

(* ---------------------- the Connector on its own ---------------------- *)
\* Longest API key offered to the Connector.
MaxKeyLength == 10

\* maskApiKey with the threshold one too low: a key of 8 characters is shown.
maskApiKey_ShowsEight(apiKey) ==
    IF Len(apiKey) <= 7 THEN "********"
    ELSE NameText(SubSeq(apiKey, 1, 4)) \o "..."
             \o NameText(SubSeq(apiKey, Len(apiKey) - 3, Len(apiKey)))

\* maskApiKey(apiKey): apiKey.substring(0, 4), "...", and
\* apiKey.substring(apiKey.length - 4), or eight asterisks for a short key.
maskApiKey(apiKey) ==
    IF Len(apiKey) <= 8 THEN "********"
    ELSE NameText(SubSeq(apiKey, 1, 4)) \o "..."
             \o NameText(SubSeq(apiKey, Len(apiKey) - 3, Len(apiKey)))

\* The endpoint of each operation.
EndpointOf(operation) ==
    CASE operation = "fetchInfo" -> "/info"
      [] operation = "fetchParameters" -> "/parameters"
      [] operation = "runWorkflow" -> "/workflows/run"

\* An error the Connector ends with.  An ApiError carries statusCode,
\* statusText and endpoint; any other error has none of them.
ApiError(message, statusCode, statusText, endpoint) ==
    [name |-> "ApiError", message |-> message,
     statusCode |-> Some(statusCode), statusText |-> Some(statusText),
     endpoint |-> Some(endpoint)]
PlainError(name, message) ==
    [name |-> name, message |-> message,
     statusCode |-> None, statusText |-> None, endpoint |-> None]

\* What httpClient.request rejects with when no response arrives, and what
\* response.text() rejects with when the body cannot be read.
RequestFailure == PlainError("FetchError", "request to backend failed")
BodyFailure == PlainError("FetchError", "body stream failed")

\* What JSON.parse throws, as `${error}` renders it.
ParseFailureText == "SyntaxError: Unexpected token i in JSON at position 0"

\* The bodies JSON.parse accepts, with the values they parse to.
ParsedBodies ==
    {JObj(<<>>),
     JObj(<<Field("name", JStr("search"))>>),
     JObj(<<Field("error", JStr("unavailable"))>>)}
Parses(text) == \E value \in ParsedBodies : JSONstringify(value) = text
Parse(text) == CHOOSE value \in ParsedBodies : JSONstringify(value) = text

\* How an operation ended: it returned a value or threw an error; log holds
\* the console.error lines it wrote, each the sequence of its pieces.
Returned(value, log) ==
    [outcome |-> "returned", value |-> Some(value), error |-> None, log |-> log]
Threw(error, log) ==
    [outcome |-> "threw", value |-> None, error |-> Some(error), log |-> log]

\* A handleApiResponseError that parses the body and returns it when it can.
handleApiResponseError_ParsesBody(response, endpoint, apiKey) ==
    IF response.readable /\ Parses(response.body)
    THEN Returned(Parse(response.body), <<>>)
    ELSE Threw(ApiError(endpoint \o " API error: "
                            \o NameText(NumberToString(response.status))
                            \o " " \o response.statusText,
                        response.status, response.statusText, endpoint),
               <<>>)

\* handleApiResponseError(response, endpoint, apiKey)
handleApiResponseError(response, endpoint, apiKey) ==
    LET errorText == IF response.readable THEN response.body
                     ELSE "Could not retrieve response text"
        status == NameText(NumberToString(response.status))
    IN Threw(ApiError(endpoint \o " API error: " \o status \o " "
                          \o response.statusText,
                      response.status, response.statusText, endpoint),
             << <<endpoint \o " API error code: ", status>>,
                <<endpoint \o " API error message: ", response.statusText>>,
                <<endpoint \o " API error response: ", errorText>>,
                <<"API Key (masked): ", maskApiKey(apiKey)>> >>)

\* handleParseError(error, endpoint), error being what the parser threw.
handleParseError(error, endpoint) ==
    Threw(PlainError("Error", "Failed to parse " \o endpoint
                                  \o " API response: " \o error),
          << <<endpoint \o " JSON parse error:", error>>,
             <<"Error stack: ", error>> >>)

\* The two lines runWorkflow writes before handleParseError.
ResponseTextLog(operation, text) ==
    IF operation = "runWorkflow"
    THEN << <<"Failed to parse workflow execution response:",
              ParseFailureText>>,
            <<"Response text:", text>> >>
    ELSE <<>>

\* fetchInfo, fetchParameters and runWorkflow: the request, the check of
\* response.ok, the read of the body and the parse.
ConnectorCall(operation, apiKey, exchange) ==
    LET endpoint == EndpointOf(operation) IN
    IF ~exchange.arrives THEN Threw(RequestFailure, <<>>)
    ELSE IF ~exchange.ok
    THEN handleApiResponseError(exchange, endpoint, apiKey)
    ELSE IF ~exchange.readable THEN Threw(BodyFailure, <<>>)
    ELSE IF ~Parses(exchange.body)
    THEN LET thrown == handleParseError(ParseFailureText, endpoint) IN
         [thrown EXCEPT !.log = ResponseTextLog(operation, exchange.body) \o @]
    ELSE Returned(Parse(exchange.body), <<>>)

\* An HTTP exchange: whether a response arrives at all, and the response.
Exchange(arrives, ok, status, statusText, readable, body) ==
    [arrives |-> arrives, ok |-> ok, status |-> status,
     statusText |-> statusText, readable |-> readable, body |-> body]
NoResponse == Exchange(FALSE, FALSE, 0, "", FALSE, "")
BodyChoices ==
    {"{}", "{\"name\":\"search\"}", "{\"error\":\"unavailable\"}",
     "invalid-json", ""}
ExchangeChoices ==
    {NoResponse}
    \cup {Exchange(TRUE, TRUE, 200, "OK", readable, body) :
              readable \in BOOLEAN, body \in BodyChoices}
    \cup {Exchange(TRUE, FALSE, 401, "Unauthorized", readable, body) :
              readable \in BOOLEAN, body \in BodyChoices}
    \cup {Exchange(TRUE, FALSE, 503, "Service Unavailable", TRUE, "")}

\* API keys of every length up to MaxKeyLength: "1234" and "wxyz" at the
\* ends where there is room, the first character and the middle varied.
KeyOfLength(length, first, middle) ==
    [i \in 1..length |->
        IF i = 1 THEN first
        ELSE IF i <= 4 THEN DigitChars[i + 1]
        ELSE IF i > length - 4 THEN <<"w", "x", "y", "z">>[i - (length - 4)]
        ELSE middle]
KeyChoices ==
    {KeyOfLength(length, first, middle) :
        length \in 0..MaxKeyLength, first \in {"1", "s"}, middle \in {"a", "b"}}

Operations == {"fetchInfo", "fetchParameters", "runWorkflow"}

\* One operation is asked of the Connector for apiKey, and, under the same
\* exchange, for otherKey.
InitConnector ==
    /\ \E operation \in Operations, exchange \in ExchangeChoices,
          apiKey \in KeyChoices, otherKey \in KeyChoices :
         cnRequest = Some([operation |-> operation, exchange |-> exchange,
                           apiKey |-> apiKey, otherKey |-> otherKey])
    /\ cnResult = None
    /\ toolsReturned = None
    /\ schAgain = None
    /\ cfgEnv = None
    /\ cfgResult = None
    /\ OuterIdle
    /\ RegistryIdle
    /\ NamesIdle
    /\ SchemaIdle
    /\ OutputIdle

ConnectorEnds ==
    /\ cnResult = None
    /\ LET request == Get(cnRequest) IN
       cnResult' = Some([first |-> ConnectorCall(request.operation,
                                                 request.apiKey,
                                                 request.exchange),
                         second |-> ConnectorCall(request.operation,
                                                  request.otherKey,
                                                  request.exchange)])
    /\ UNCHANGED <<cnRequest, toolsReturned, schAgain, cfgEnv, cfgResult,
                   outerVars, registryVars, uqVars, schemaVars, outputVars>>

SpecConnector == InitConnector /\ [][ConnectorEnds]_vars

(* --------------------- the configuration on its own ------------------- *)
\* Longest DIFY_API_KEYS text offered to the constructor.
MaxEnvLength == 3

Comma == ","
Space == " "

\* text.split(','): the pieces between the commas, empty ones included.
RECURSIVE SplitComma(_)
SplitComma(text) ==
    IF \E i \in 1..Len(text) : text[i] = Comma
    THEN LET first == CHOOSE i \in 1..Len(text) :
                          text[i] = Comma /\ \A j \in 1..(i - 1) : text[j] # Comma
         IN <<SubSeq(text, 1, first - 1)>>
                \o SplitComma(SubSeq(text, first + 1, Len(text)))
    ELSE <<text>>

\* key.trim(): without the spaces at either end.
RECURSIVE Trim(_)
Trim(text) ==
    IF text = <<>> THEN text
    ELSE IF Head(text) = Space THEN Trim(Tail(text))
    ELSE IF text[Len(text)] = Space THEN Trim(SubSeq(text, 1, Len(text) - 1))
    ELSE text

\* this.baseUrl = env.DIFY_BASE_URL || ''
EnvBaseUrl(env) == Get(OrStr(env.DIFY_BASE_URL, Some("")))

\* this.apiKeys: DIFY_API_KEYS split at the commas and trimmed, else the one
\* legacy DIFY_API_KEY, else none.
EnvApiKeys(env) ==
    LET listed == IF TruthyName(env.DIFY_API_KEYS)
                  THEN LET pieces == SplitComma(Get(env.DIFY_API_KEYS)) IN
                       [i \in 1..Len(pieces) |-> NameText(Trim(pieces[i]))]
                  ELSE <<>>
    IN IF TruthyStr(env.DIFY_API_KEY) /\ Len(listed) = 0
       THEN <<Get(env.DIFY_API_KEY)>>
       ELSE listed

\* What validate() writes to console.error.
validateLog ==
    IF baseUrl = "" THEN <<"Environment variable DIFY_BASE_URL is not set">>
    ELSE IF Len(apiKeys) = 0
    THEN <<"No API keys found. Please set either DIFY_API_KEY or DIFY_API_KEYS environment variable.">>
    ELSE <<>>

\* handleConfigError(message), nodeEnv being process.env.NODE_ENV: the error
\* is thrown in the test environment, and the process exits with code 1 in
\* any other.
handleConfigError(message, nodeEnv) ==
    [outcome |-> IF nodeEnv = Some("test") THEN "threw" ELSE "exited",
     error |-> IF nodeEnv = Some("test") THEN Some(message) ELSE None,
     exitCode |-> IF nodeEnv = Some("test") THEN None ELSE Some(1),
     log |-> validateLog \o <<"Configuration error: " \o message>>]

\* A validateStrict() that lets a configuration without API keys pass.
validateStrict_NeedsUrlOnly(nodeEnv) ==
    IF baseUrl = ""
    THEN handleConfigError(
             "Invalid configuration. Please check environment variables.",
             nodeEnv)
    ELSE [outcome |-> "returned", error |-> None, exitCode |-> None,
          log |-> <<>>]

\* validateStrict()
validateStrict(nodeEnv) ==
    IF ~validate
    THEN handleConfigError(
             "Invalid configuration. Please check environment variables.",
             nodeEnv)
    ELSE [outcome |-> "returned", error |-> None, exitCode |-> None,
          log |-> <<>>]

EnvChars == {"a", Comma, Space}

\* new EnvConfig(env), for an environment that sets or leaves out each of
\* DIFY_BASE_URL, DIFY_API_KEYS, DIFY_API_KEY and NODE_ENV.
InitConfig ==
    /\ \E url \in {None, Some(""), Some("https://dify.example/v1")},
          legacy \in {None, Some(""), Some("legacy-key")},
          nodeEnv \in {None, Some("test"), Some("production")},
          k \in 0..MaxEnvLength :
         \E keys \in {None} \cup {Some(text) : text \in [1..k -> EnvChars]} :
            cfgEnv = Some([DIFY_BASE_URL |-> url, DIFY_API_KEYS |-> keys,
                           DIFY_API_KEY |-> legacy, NODE_ENV |-> nodeEnv])
    /\ baseUrl = EnvBaseUrl(Get(cfgEnv))
    /\ apiKeys = EnvApiKeys(Get(cfgEnv))
    /\ cfgResult = None
    /\ phase = "Uninitialized"
    /\ initError = "none"
    /\ idx = 0
    /\ awaiting = "none"
    /\ pendingInfo = None
    /\ fetchOutcome = [i \in 1..Len(apiKeys) |-> "none"]
    /\ workflowApiKeyMap = <<>>
    /\ results = <<>>
    /\ success = 0
    /\ failed = 0
    /\ workflowTools = <<>>
    /\ lastCall = NoCall
    /\ connectorOps = {}
    /\ fetchLog = <<>>
    /\ toolsReturned = None
    /\ schAgain = None
    /\ cnRequest = None
    /\ cnResult = None
    /\ OuterIdle
    /\ NamesIdle
    /\ SchemaIdle
    /\ OutputIdle

\* config.validate() and config.validateStrict() are called.
ValidateConfig ==
    /\ cfgResult = None
    /\ cfgResult' = Some([valid |-> validate,
                          strict |-> validateStrict(Get(cfgEnv).NODE_ENV)])
    /\ UNCHANGED <<cfgEnv, toolsReturned, schAgain, cnRequest, cnResult,
                   outerVars, registryVars, uqVars, schemaVars, outputVars>>

SpecConfig == InitConfig /\ [][ValidateConfig]_vars

(* ------------------------------ claims -------------------------------- *)
Done == phase \in {"Ready", "Failed"}
KeyPositions == 1..Len(apiKeys)
OkPositions == {i \in KeyPositions : fetchOutcome[i] = "ok"}
FailedPositions ==
    {i \in KeyPositions : fetchOutcome[i] \in {"infoFailed", "paramsFailed"}}
\* The request recorded in lastCall reached executeWorkflow.
Invoked == IsSome(lastCall.executed)
\* It asked for a tool that was listed.
CalledListedTool == Invoked /\ lastCall.listed
ToolNameSeq == [i \in 1..Len(workflowTools) |-> workflowTools[i].name]
BaseNameSeq == [i \in 1..Len(results) |-> BaseNameOf(results[i].infoData)]

\* C1: after a successful initialize, invoking a listed tool runs the
\* Connector with the API key of the backend whose discovery produced that
\* tool, never another backend's.
C1_InvokeUsesDiscoveringKey ==
    (phase = "Ready" /\ CalledListedTool) =>
        \A i \in 1..Len(workflowTools) :
            workflowTools[i].name = lastCall.name =>
                lastCall.apiKey = Some(results[i].apiKey)

\* C2: keys [k1, k2], both backends named "search", k1 with the legacy
\* parameter "query" (required), k2 with empty parameters.
C2_Scenario ==
    /\ phase = "Ready"
    /\ apiKeys = <<"k1", "k2">>
    /\ Len(results) = 2
    /\ results[1].infoData.name = Some(search)
    /\ results[1].paramsData = LegacyQuery
    /\ results[2].infoData.name = Some(search)
    /\ results[2].paramsData = EmptyParameters

\* C2: in that scenario the tool list is [search requiring "query", search-1
\* requiring nothing], in that order, and invoking "search-1" runs the
\* workflow with k2.
C2_EndToEnd ==
    C2_Scenario =>
        /\ ToolNameSeq = <<search, search1>>
        /\ workflowTools[1].inputSchema.required = <<"query">>
        /\ workflowTools[2].inputSchema.required = <<>>
        /\ (CalledListedTool /\ lastCall.name = search1) =>
               /\ lastCall.result # "UnknownTool"
               /\ lastCall.apiKey = Some("k2")

C2_Witness ==
    /\ C2_Scenario
    /\ CalledListedTool
    /\ lastCall.name = search1
    /\ lastCall.result = "ok"

\* C3: invoking a name that is neither a key of the name -> key map nor a
\* listed tool fails with UnknownTool and never calls the Connector.
C3_UnknownNameFails ==
    (Invoked /\ ~lastCall.registered /\ ~lastCall.listed) =>
        /\ lastCall.result = "UnknownTool"
        /\ lastCall.apiKey = None

\* C4: when the discovered names are pairwise distinct, invoking a listed
\* name runs the Connector with the key registered under exactly that name.
C4_ExactNameLookup ==
    (/\ phase = "Ready"
     /\ CalledListedTool
     /\ \A i, j \in 1..Len(results) : i # j => BaseNameSeq[i] # BaseNameSeq[j]) =>
        lastCall.apiKey = MapGet(workflowApiKeyMap, lastCall.name)

\* C5: after a successful initialize the map has one entry per discovered
\* backend and its keys are exactly the listed tool names.
C5_MapMatchesToolList ==
    phase = "Ready" =>
        /\ Cardinality(DOMAIN workflowApiKeyMap) = Cardinality(OkPositions)
        /\ DOMAIN workflowApiKeyMap = ToolNames(workflowTools)

\* C6: no two tools in the tool list have the same name.
C6_ToolNamesUnique ==
    \A i, j \in 1..Len(workflowTools) :
        i # j => workflowTools[i].name # workflowTools[j].name

C6_Witness ==
    /\ phase = "Ready"
    /\ BaseNameSeq = <<search, search1, search>>
    /\ ToolNameSeq = <<search, search1, search2>>

\* Decimal numerals 1..15, written out.
Numeral ==
    << <<"1">>, <<"2">>, <<"3">>, <<"4">>, <<"5">>, <<"6">>, <<"7">>, <<"8">>,
       <<"9">>, <<"1", "0">>, <<"1", "1">>, <<"1", "2">>, <<"1", "3">>,
       <<"1", "4">>, <<"1", "5">> >>
WithSuffix(baseName, k) == baseName \o <<"-">> \o Numeral[k]

\* C7: getUniqueWorkflowName returns the base name when it is unused, and
\* otherwise base-k for the smallest k >= 1 such that base-k is unused.
C7_FirstFreeSuffix ==
    IsSome(uqResult) =>
        IF uqBase \notin uqNames
        THEN Get(uqResult) = uqBase
        ELSE \E k \in 1..(Cardinality(uqNames) + 1) :
                 /\ Get(uqResult) = WithSuffix(uqBase, k)
                 /\ WithSuffix(uqBase, k) \notin uqNames
                 /\ \A j \in 1..(k - 1) : WithSuffix(uqBase, j) \in uqNames

C7_Witness ==
    /\ IsSome(uqResult)
    /\ uqBase \in uqNames
    /\ WithSuffix(uqBase, 1) \in uqNames
    /\ Get(uqResult) = WithSuffix(uqBase, 2)

\* C8: when every key's descriptor and parameter fetch succeeded, initialize
\* ends without error and lists one tool per key.
C8_AllSucceed ==
    (Len(apiKeys) > 0 /\ OkPositions = KeyPositions) =>
        /\ phase = "Ready"
        /\ initError = "none"
        /\ Len(workflowTools) = Len(apiKeys)

C8_Witness ==
    /\ Len(apiKeys) = 3
    /\ OkPositions = KeyPositions
    /\ BaseNameSeq = <<search, search, search>>
    /\ Len(workflowTools) = 3

\* C9: when some but not all keys failed discovery, initialize succeeds,
\* every key was tried, and the tool count is the number of keys that
\* succeeded (at least 1, less than the number of keys).
C9_PartialFailure ==
    (Done /\ OkPositions # {} /\ FailedPositions # {}) =>
        /\ phase = "Ready"
        /\ initError = "none"
        /\ OkPositions \cup FailedPositions = KeyPositions
        /\ Len(workflowTools) = Cardinality(OkPositions)
        /\ Len(workflowTools) >= 1
        /\ Len(workflowTools) < Len(apiKeys)

C9_Witness ==
    /\ phase = "Ready"
    /\ Len(apiKeys) = 3
    /\ fetchOutcome = <<"infoFailed", "ok", "paramsFailed">>
    /\ Len(workflowTools) = 1

\* C10: when every key failed discovery, initialize fails with
\* NoBackendsAvailable, the tool list is empty and the map has no entries.
C10_AllFail ==
    (Done /\ Len(apiKeys) > 0 /\ FailedPositions = KeyPositions) =>
        /\ phase = "Failed"
        /\ initError = "NoBackendsAvailable"
        /\ workflowTools = <<>>
        /\ DOMAIN workflowApiKeyMap = {}

C10_Witness ==
    /\ phase = "Failed"
    /\ initError = "NoBackendsAvailable"
    /\ fetchOutcome = <<"paramsFailed", "infoFailed">>

\* C11: when the credential sequence is empty, initialize fails at once with a
\* configuration error, and no Connector operation (fetchInfo, fetchParameters,
\* runWorkflow) is ever called, whatever is requested afterwards.
C11_EmptyKeysNoConnector ==
    Len(apiKeys) = 0 =>
        /\ connectorOps = {}
        /\ fetchLog = <<>>
        /\ phase \in {"Uninitialized", "Failed"}
        /\ phase = "Failed" =>
               initError \in {"ConfigurationInvalid", "NoApiKeys"}

C11_Witness ==
    /\ Len(apiKeys) = 0
    /\ baseUrl # ""
    /\ phase = "Failed"
    /\ lastCall.result = "UnknownTool"
    /\ connectorOps = {}
    /\ fetchLog = <<>>

(* ------------------- claims about the normaliser ---------------------- *)
IsFormShape(pd) ==
    IsSome(pd.user_input_form) /\ Get(pd.user_input_form).isArray
HasParametersOf(pd, shape) ==
    ~IsFormShape(pd) /\ IsSome(pd.parameters)
                     /\ Get(pd.parameters).shape = shape

\* A schema read as the sequence of its entries, whatever its shape: each
\* with the 0-based position the entry is reported under, its name if any,
\* whether it is required, its component-kind tag (form shape) and its
\* declared type (legacy shape).
RECURSIVE FormReading(_, _)
FormReading(form, position) ==
    IF form = <<>> THEN <<>>
    ELSE [i \in 1..Len(Head(form)) |->
             [position |-> position,
              name |-> Head(form)[i].field.variable,
              required |-> Head(form)[i].field.required,
              tag |-> Head(form)[i].componentType,
              declared |-> None]]
         \o FormReading(Tail(form), position + 1)

ArrayReading(parameters) ==
    [i \in 1..Len(parameters) |->
        [position |-> i - 1,
         name |-> parameters[i].name,
         required |-> parameters[i].required,
         tag |-> "",
         declared |-> parameters[i].type]]

ObjectReading(object) ==
    [i \in 1..Len(object) |->
        [position |-> i - 1,
         name |-> Some(object[i].key),
         required |-> object[i].isObject /\ object[i].value.required,
         tag |-> "",
         declared |-> IF object[i].isObject THEN object[i].value.type
                      ELSE None]]

Reading(pd) ==
    IF IsFormShape(pd) THEN FormReading(Get(pd.user_input_form).items, 0)
    ELSE IF HasParametersOf(pd, "array")
    THEN ArrayReading(Get(pd.parameters).items)
    ELSE IF HasParametersOf(pd, "object")
    THEN ObjectReading(Get(pd.parameters).items)
    ELSE <<>>

Named(e) == TruthyStr(e.name)
Nameless(e) == ~TruthyStr(e.name)
NamedRequired(e) == TruthyStr(e.name) /\ e.required
NamesOf(entries) == [i \in 1..Len(entries) |-> Get(entries[i].name)]
\* The last entry that carries the name n.
LastNamed(entries, n) ==
    CHOOSE i \in 1..Len(entries) :
        /\ entries[i].name = Some(n)
        /\ \A j \in (i + 1)..Len(entries) : entries[j].name # Some(n)

\* C12: whatever the parameter schema (form shape, legacy sequence, legacy
\* mapping or neither; names missing or repeated), every name in the
\* normalised required list is a key of the normalised properties.
C12_RequiredWithinProperties ==
    IsSome(schOut) =>
        LET r == Get(schOut) IN
        \A i \in 1..Len(r.required) : r.required[i] \in DOMAIN r.properties

C12_Witness ==
    /\ IsSome(schOut)
    /\ IsFormShape(schIn)
    /\ Get(schOut).required = <<"query", "query">>
    /\ Get(schOut).diagnostics = <<>>

\* The table C13 states: checkbox is an array, number and slider are
\* numbers, switch is a boolean and every other tag is a string.
C13_TagTable(tag) ==
    IF tag = "checkbox" THEN "array"
    ELSE IF tag = "number" \/ tag = "slider" THEN "number"
    ELSE IF tag = "switch" THEN "boolean"
    ELSE "string"

\* C13: the type of a form-shape parameter depends on the component-kind tag
\* of the entry that defines it and on nothing else, following the table.
C13_TypeFromTagOnly ==
    (IsSome(schOut) /\ IsFormShape(schIn)) =>
        LET r == Get(schOut)
            entries == Reading(schIn)
        IN /\ \A i \in 1..Len(entries) :
                  Named(entries[i]) =>
                      Get(entries[i].name) \in DOMAIN r.properties
           /\ \A n \in DOMAIN r.properties :
                  r.properties[n].type =
                      C13_TagTable(entries[LastNamed(entries, n)].tag)

C13_Witness ==
    /\ IsSome(schOut)
    /\ IsFormShape(schIn)
    /\ LET entries == Reading(schIn) IN
       /\ Len(entries) = 2
       /\ entries[1].tag = "slider" /\ entries[1].name = Some("query")
       /\ entries[2].tag = "switch" /\ entries[2].name = Some("limit")
    /\ Get(schOut).properties["query"].type = "number"
    /\ Get(schOut).properties["limit"].type = "boolean"

\* The four types the normalised schema is said to be made of.
NormalizedTypes == {"string", "number", "boolean", "array"}

\* C14 as stated: every normalised property type is one of "string",
\* "number", "boolean" and "array", legacy entries included, whose type is
\* the declared type or "string".
C14_TypesInClosedSet ==
    IsSome(schOut) =>
        LET r == Get(schOut) IN
        \A n \in DOMAIN r.properties :
            r.properties[n].type \in NormalizedTypes

\* C14, amended: a form-shape property type is one of the four; a legacy
\* property type is the declared type of the entry that defines it, whatever
\* that string is, and "string" when none (or the empty string) is declared.
C14_TypesClosedOrDeclared ==
    IsSome(schOut) =>
        LET r == Get(schOut)
            entries == Reading(schIn)
        IN \A n \in DOMAIN r.properties :
               LET e == entries[LastNamed(entries, n)] IN
               IF IsFormShape(schIn)
               THEN r.properties[n].type \in NormalizedTypes
               ELSE r.properties[n].type =
                        (IF TruthyStr(e.declared) THEN Get(e.declared)
                         ELSE "string")

C14_Witness ==
    /\ IsSome(schOut)
    /\ HasParametersOf(schIn, "array")
    /\ LET entries == Reading(schIn) IN
       /\ Len(entries) = 2
       /\ entries[1].name = Some("limit")
       /\ entries[1].declared = Some("integer")
       /\ entries[2].name = Some("query")
       /\ entries[2].declared = None
    /\ Get(schOut).properties["limit"].type = "integer"
    /\ Get(schOut).properties["query"].type = "string"

\* The warning an entry without a name is reported with.
PositionWarning(pd, e) ==
    IF IsFormShape(pd) THEN FormNoVariableWarning(e.position)
    ELSE ParameterNoNameWarning(e.position)
NamesPosition(d) == d \notin {NotAnArrayWarning, NoDefinitionWarning}

\* C15: one bad entry never aborts the normalisation.  A form component
\* without a variable, or a legacy entry without a name, is left out of
\* properties and required and reported with its position; every other
\* entry is still normalised, in order.
C15_BadEntriesSkipped ==
    IsSome(schOut) =>
        LET r == Get(schOut)
            entries == Reading(schIn)
            bad == SelectSeq(entries, Nameless)
        IN /\ DOMAIN r.properties =
                  {Get(entries[i].name) :
                      i \in {j \in 1..Len(entries) : Named(entries[j])}}
           /\ r.required = NamesOf(SelectSeq(entries, NamedRequired))
           /\ SelectSeq(r.diagnostics, NamesPosition) =
                  [i \in 1..Len(bad) |-> PositionWarning(schIn, bad[i])]

C15_Witness ==
    /\ IsSome(schOut)
    /\ HasParametersOf(schIn, "array")
    /\ LET entries == Reading(schIn) IN
       /\ Len(entries) = 2
       /\ entries[1].name = None
       /\ entries[2].name = Some("query") /\ entries[2].required
    /\ DOMAIN Get(schOut).properties = {"query"}
    /\ Get(schOut).required = <<"query">>
    /\ Get(schOut).diagnostics = <<"Warning: Parameter[0] has no name:">>

\* C16: a schema with neither the form shape nor the legacy shape (both
\* absent, or the legacy field null) normalises to no property and no
\* required name, with exactly one diagnostic, "No parameter definition
\* found".
C16_NeitherShapeIsEmpty ==
    (/\ IsSome(schOut)
     /\ ~IsFormShape(schIn)
     /\ schIn.parameters \in {None, ParametersNull}) =>
        /\ Get(schOut).properties = <<>>
        /\ Get(schOut).required = <<>>
        /\ Get(schOut).diagnostics = <<NoDefinitionWarning>>

C16_Witness ==
    /\ IsSome(schOut)
    /\ schIn = [user_input_form |-> None, parameters |-> ParametersNull]
    /\ Len(Get(schOut).diagnostics) = 1

\* The property C17 gives the entry e of a parameters mapping.
C17_PropertyOf(e) ==
    IF e.isObject
    THEN [type |-> IF TruthyStr(e.value.type) THEN Get(e.value.type)
                   ELSE "string",
          description |-> IF TruthyStr(e.value.description)
                          THEN Get(e.value.description) ELSE ""]
    ELSE [type |-> "string", description |-> ""]
C17_InRequired(r, k) == \E i \in 1..Len(r.required) : r.required[i] = k
C17_EntryNormalized(r, e) ==
    /\ e.key \in DOMAIN r.properties
    /\ r.properties[e.key] = C17_PropertyOf(e)
    /\ C17_InRequired(r, e.key) <=> (e.isObject /\ e.value.required)

\* C17 as stated: every key k of a legacy mapping yields property k (type:
\* the declared type or "string", description: the declared one or ""), and
\* k is required exactly when its required field is truthy; a value that is
\* not an object yields {type: "string", description: ""}, not required.
C17_EveryKeyNormalized ==
    (IsSome(schOut) /\ HasParametersOf(schIn, "object")) =>
        LET r == Get(schOut)
            object == Get(schIn.parameters).items
        IN /\ \A i \in 1..Len(object) : C17_EntryNormalized(r, object[i])
           /\ DOMAIN r.properties = {object[i].key : i \in 1..Len(object)}

\* C17, amended: the same for every key that is not the empty string; the
\* entry under the empty key has no name, and is skipped and reported like
\* any legacy entry without one.
C17_NonEmptyKeysNormalized ==
    (IsSome(schOut) /\ HasParametersOf(schIn, "object")) =>
        LET r == Get(schOut)
            object == Get(schIn.parameters).items
        IN /\ \A i \in 1..Len(object) :
                  IF object[i].key # ""
                  THEN C17_EntryNormalized(r, object[i])
                  ELSE /\ ~C17_InRequired(r, "")
                       /\ \E d \in 1..Len(r.diagnostics) :
                              r.diagnostics[d] = ParameterNoNameWarning(i - 1)
           /\ DOMAIN r.properties =
                  {object[i].key : i \in 1..Len(object)} \ {""}

C17_Witness ==
    /\ IsSome(schOut)
    /\ schIn = [user_input_form |-> None,
                parameters |-> ParametersObject(
                    << [key |-> "q", isObject |-> TRUE,
                        value |-> [type |-> Some("string"),
                                   description |-> None,
                                   required |-> TRUE]] >>)]
    /\ Get(schOut).properties =
           ("q" :> [type |-> "string", description |-> ""])
    /\ Get(schOut).required = <<"q">>

(* ------------------- claims about the dispatcher ---------------------- *)
\* C19: a tools/call request whose arguments are undefined fails with the
\* MissingArguments error, which carries the request, and neither
\* executeWorkflow nor the Connector is called; a request with arguments,
\* be it the empty mapping, is handed to executeWorkflow with the same name
\* and arguments.
C19_ArgumentsRequired ==
    lastCall.result # "none" =>
        IF lastCall.arguments = None
        THEN /\ lastCall.result = "MissingArguments"
             /\ lastCall.errorRequest =
                    Some([name |-> lastCall.name, arguments |-> None])
             /\ lastCall.executed = None
             /\ lastCall.apiKey = None
        ELSE /\ lastCall.result # "MissingArguments"
             /\ lastCall.executed =
                    Some([toolName |-> lastCall.name,
                          params |-> Get(lastCall.arguments)])

C19_Witness ==
    /\ phase = "Ready"
    /\ lastCall.listed
    /\ lastCall.arguments = None
    /\ lastCall.result = "MissingArguments"
    /\ "runWorkflow" \notin connectorOps

\* Whether the response has data.outputs, and a top-level result.
C18_Outputs == DataOutputs(wfResponse)
C18_Result == Lookup(wfResponse, "result")

\* C18: the output is the first that is there of data.outputs, the top-level
\* result whatever its value (the empty string included), and the whole
\* response unchanged.
C18_FirstPresentField ==
    IsSome(wfReturn) =>
        LET output == Get(wfReturn).output IN
        /\ TruthyJson(C18_Outputs) => output = Get(C18_Outputs)
        /\ (C18_Outputs = None /\ IsSome(C18_Result)) =>
               output = Get(C18_Result)
        /\ (C18_Outputs = None /\ C18_Result = None) => output = wfResponse

\* C20: a successful call returns a content envelope with exactly one item,
\* of type "text"; its text is the JSON serialisation of a structured output
\* and the output itself when that is a text.
C20_SingleTextItem ==
    IsSome(wfReturn) =>
        LET output == Get(wfReturn).output
            content == Get(wfReturn).content
        IN /\ Len(content) = 1
           /\ content[1].type = "text"
           /\ output.t = "object" =>
                  /\ content[1].text = JStr(JSONstringify(output))
                  /\ output = JObj(<<>>) => content[1].text.s = "{}"
                  /\ output = AnswerOutputs =>
                         content[1].text.s = "{\"answer\":\"42\"}"
           /\ output.t = "string" => content[1].text = output

C20_Witness ==
    /\ IsSome(wfReturn)
    /\ Lookup(wfResponse, "task_id") = Some(JStr("t-1"))
    /\ Get(wfReturn).output = AnswerOutputs
    /\ Get(wfReturn).content =
           << [type |-> "text", text |-> JStr("{\"answer\":\"42\"}")] >>

(* ------------------------ claims about listing ------------------------ *)
\* What discovery found: the tools of the collected workflow data.
DiscoveredTools == convertDifyWorkflowToMCPTools(results)

\* C21: getTools returns the empty list until initialize has completed with
\* success, and from then on the discovered tools, whatever the caller did
\* to the lists it was handed before: each call returns a copy of its own.
C21_ListIsFreshCopy ==
    /\ phase # "Ready" => getTools.items = <<>>
    /\ phase = "Ready" => getTools.items = DiscoveredTools

C21_Witness ==
    /\ phase = "Ready"
    /\ Len(workflowTools) = 2
    /\ IsSome(toolsReturned)
    /\ Len(Get(toolsReturned).items) = 1
    /\ getTools.items = DiscoveredTools

\* The map discovery leaves behind: one registration per collected workflow,
\* in order.
RECURSIVE RegisteredBy(_)
RegisteredBy(collected) ==
    IF collected = <<>> THEN <<>>
    ELSE LET last == collected[Len(collected)] IN
         registerWorkflow(RegisteredBy(SubSeq(collected, 1, Len(collected) - 1)),
                          BaseNameOf(last.infoData), last.apiKey)

\* C28: once initialize has completed, the tool list and the name -> API key
\* map are what initialize left, whatever list and call requests were
\* handled since, the calls that fail with UnknownTool, MissingArguments or
\* a Connector error included.
C28_ListAndCallFrame ==
    Done =>
        /\ workflowTools = (IF phase = "Ready" THEN DiscoveredTools ELSE <<>>)
        /\ workflowApiKeyMap = RegisteredBy(results)

C28_Witness ==
    /\ phase = "Ready"
    /\ lastCall.result = "ConnectorError"
    /\ IsSome(toolsReturned)
    /\ Len(workflowTools) = 2
    /\ workflowTools = DiscoveredTools
    /\ \A i \in 1..Len(workflowTools) :
           TruthyStr(getApiKeyForWorkflow(workflowApiKeyMap,
                                          workflowTools[i].name))

(* ------------------- claims about failing invocations ----------------- *)
\* The texts a value that is not an Error may be reported with.
C22_Details == {"string error", "[object Object]", "null"}

\* C22: when the Connector fails during an invocation, the caller of the
\* call request gets an error and no result: the Error the Connector threw,
\* the very same, or, when what was thrown is not an Error, a new Error whose
\* message is "Unknown error occurred while executing tool '<name>'" followed
\* by the value.
C22_FailuresReachCaller ==
    IsSome(wfRejection) =>
        /\ wfReturn = None
        /\ IsSome(wfThrown) =>
               LET reason == Get(wfRejection).reason
                   name == NameText(Get(wfRejection).toolName)
                   thrown == Get(wfThrown)
               IN /\ thrown.isError
                  /\ reason.isError => thrown = reason
                  /\ ~reason.isError =>
                         /\ thrown.id \notin {"e1", "e2"}
                         /\ \E detail \in C22_Details :
                                thrown.message =
                                    "Unknown error occurred while executing tool '"
                                        \o name \o "': " \o detail

C22_Witness ==
    /\ IsSome(wfRejection)
    /\ Get(wfRejection).toolName = search1
    /\ Get(wfRejection).reason = NonError(JStr("string error"))
    /\ IsSome(wfThrown)
    /\ Get(wfThrown).message =
           "Unknown error occurred while executing tool 'search-1': string error"

(* ---------------------- claims about the Connector -------------------- *)
C23_ParseMessage(endpoint) ==
    "Failed to parse " \o endpoint \o " API response: " \o ParseFailureText

\* The three outcomes C23 names, for the exchange a request was answered by.
C23_OutcomeOfResponse(request, result) ==
    LET exchange == request.exchange
        endpoint == EndpointOf(request.operation)
    IN IF ~exchange.ok
       THEN /\ result.outcome = "threw"
            /\ Get(result.error).name = "ApiError"
            /\ Get(result.error).statusCode = Some(exchange.status)
            /\ Get(result.error).statusText = Some(exchange.statusText)
            /\ Get(result.error).endpoint = Some(endpoint)
       ELSE IF ~Parses(exchange.body)
       THEN /\ result.outcome = "threw"
            /\ Get(result.error).name = "Error"
            /\ Get(result.error).message = C23_ParseMessage(endpoint)
       ELSE /\ result.outcome = "returned"
            /\ result.value = Some(Parse(exchange.body))

C24_Redacted(apiKey) ==
    IF Len(apiKey) <= 8 THEN "********"
    ELSE NameText(<<apiKey[1], apiKey[2], apiKey[3], apiKey[4]>>) \o "..."
         \o NameText(<<apiKey[Len(apiKey) - 3], apiKey[Len(apiKey) - 2],
                       apiKey[Len(apiKey) - 1], apiKey[Len(apiKey)]>>)
C24_SameEnds(a, b) ==
    /\ Len(a) > 8 /\ Len(b) > 8
    /\ SubSeq(a, 1, 4) = SubSeq(b, 1, 4)
    /\ SubSeq(a, Len(a) - 3, Len(a)) = SubSeq(b, Len(b) - 3, Len(b))
C24_Pieces(result) ==
    UNION {{result.log[i][j] : j \in 1..Len(result.log[i])} :
               i \in 1..Len(result.log)}
        \cup (IF IsSome(result.error) THEN {Get(result.error).message} ELSE {})

\* C24: whatever way an operation fails, no piece of what it logs or throws
\* is the API key; the key is logged only on the "API Key (masked)" line,
\* as "********" when it has 8 characters or fewer and otherwise as its
\* first 4 characters, "..." and its last 4; and two keys longer than 8
\* that agree on their first 4 and last 4 characters leave the same log and
\* the same error.
C24_KeysOnlyRedacted ==
    IsSome(cnResult) =>
        LET request == Get(cnRequest)
            first == Get(cnResult).first
            second == Get(cnResult).second
        IN /\ Len(request.apiKey) > 0 =>
                  NameText(request.apiKey) \notin C24_Pieces(first)
           /\ \A i \in 1..Len(first.log) :
                  first.log[i][1] = "API Key (masked): " =>
                      first.log[i] = <<"API Key (masked): ",
                                       C24_Redacted(request.apiKey)>>
           /\ (request.exchange.arrives /\ ~request.exchange.ok) =>
                  \E i \in 1..Len(first.log) :
                      first.log[i][1] = "API Key (masked): "
           /\ C24_SameEnds(request.apiKey, request.otherKey) =>
                  first = second

C24_Witness ==
    /\ IsSome(cnResult)
    /\ Get(cnRequest).apiKey = KeyOfLength(10, "s", "a")
    /\ Get(cnRequest).otherKey = KeyOfLength(10, "s", "b")
    /\ Len(Get(cnResult).first.log) = 4
    /\ Get(cnResult).first.log[4] = <<"API Key (masked): ", "s234...wxyz">>
    /\ Get(cnResult).second.log[4] = <<"API Key (masked): ", "s234...wxyz">>

(* ------------------- claims about several API keys -------------------- *)
SeveralKeysAllDiscovered ==
    phase = "Ready" /\ Len(apiKeys) >= 2 /\ OkPositions = KeyPositions

C27_UrlConfigured == TruthyStr(Get(cfgEnv).DIFY_BASE_URL)
C27_KeyConfigured ==
    TruthyName(Get(cfgEnv).DIFY_API_KEYS) \/ TruthyStr(Get(cfgEnv).DIFY_API_KEY)

\* C27: validate() is true exactly when the base URL is not empty and there
\* is at least one API key; validateStrict() returns exactly then, and
\* otherwise reports the configuration error: thrown when NODE_ENV is
\* "test", and in any other environment the process exits with code 1.
C27_ValidateAndStrict ==
    IsSome(cfgResult) =>
        LET result == Get(cfgResult)
            nodeEnv == Get(cfgEnv).NODE_ENV
        IN /\ result.valid <=> (baseUrl # "" /\ Len(apiKeys) >= 1)
           /\ result.valid <=> (C27_UrlConfigured /\ C27_KeyConfigured)
           /\ (result.strict.outcome = "returned") <=> result.valid
           /\ ~result.valid =>
                  IF nodeEnv = Some("test")
                  THEN /\ result.strict.outcome = "threw"
                       /\ IsSome(result.strict.error)
                       /\ result.strict.exitCode = None
                  ELSE /\ result.strict.outcome = "exited"
                       /\ result.strict.exitCode = Some(1)

C27_Witness ==
    /\ IsSome(cfgResult)
    /\ baseUrl = "https://dify.example/v1"
    /\ apiKeys = <<"legacy-key">>
    /\ Get(cfgResult).valid
    /\ Get(cfgResult).strict.outcome = "returned"

(* ------------------- claims about the order of discovery -------------- *)
\* The requests in flight after the first n entries of the log: issued, and
\* neither returned nor failed yet.
InFlightAfter(n) ==
    {<<fetchLog[i].position, fetchLog[i].operation>> :
        i \in {j \in 1..n :
                  /\ fetchLog[j].event = "issued"
                  /\ \A k \in (j + 1)..n :
                         \/ fetchLog[k].event = "issued"
                         \/ fetchLog[k].position # fetchLog[j].position
                         \/ fetchLog[k].operation # fetchLog[j].operation}}
EndedBefore(n, position, operation, event) ==
    \E k \in 1..(n - 1) :
        fetchLog[k] = FetchEvent(position, operation, event)
IssuedAt(n, operation) ==
    fetchLog[n].event = "issued" /\ fetchLog[n].operation = operation

\* C30: discovery is sequential in the order of the API keys.  At most one
\* Connector request is in flight at any time; the fetchParameters of a key
\* is issued only after its fetchInfo has returned; the fetchInfo of key
\* i+1 is issued only after both fetches of key i have returned or one of
\* them has failed; and no key is taken before an earlier one.
C30_DiscoverySequential ==
    /\ \A n \in 0..Len(fetchLog) : Cardinality(InFlightAfter(n)) <= 1
    /\ \A n \in 1..Len(fetchLog) :
          /\ IssuedAt(n, "fetchParameters") =>
                 EndedBefore(n, fetchLog[n].position, "fetchInfo", "returned")
          /\ IssuedAt(n, "fetchInfo") =>
                 LET i == fetchLog[n].position - 1 IN
                 i >= 1 =>
                     \/ EndedBefore(n, i, "fetchInfo", "failed")
                     \/ EndedBefore(n, i, "fetchParameters", "failed")
                     \/ /\ EndedBefore(n, i, "fetchInfo", "returned")
                        /\ EndedBefore(n, i, "fetchParameters", "returned")
          /\ \A k \in 1..(n - 1) :
                 fetchLog[k].position <= fetchLog[n].position
    /\ phase = "Initializing" =>
           InFlightAfter(Len(fetchLog)) = {<<idx, awaiting>>}
    /\ phase # "Initializing" => InFlightAfter(Len(fetchLog)) = {}
    /\ (Done /\ initError \notin {"ConfigurationInvalid", "NoApiKeys"}) =>
           \A i \in 1..Len(apiKeys) :
               \E n \in 1..Len(fetchLog) :
                   fetchLog[n] = FetchEvent(i, "fetchInfo", "issued")

C30_Witness ==
    /\ phase = "Ready"
    /\ fetchLog = << FetchEvent(1, "fetchInfo", "issued"),
                     FetchEvent(1, "fetchInfo", "returned"),
                     FetchEvent(1, "fetchParameters", "issued"),
                     FetchEvent(1, "fetchParameters", "failed"),
                     FetchEvent(2, "fetchInfo", "issued"),
                     FetchEvent(2, "fetchInfo", "returned"),
                     FetchEvent(2, "fetchParameters", "issued"),
                     FetchEvent(2, "fetchParameters", "returned") >>

(* ------------------- claims about the lifecycle ----------------------- *)
\* C29: Ready and Failed are terminal.  Once initialize() has returned or
\* thrown, no operation of the registry (a further initialize(),
\* setWorkflowApiKeyMap and clearWorkflowApiKeyMap included) changes the
\* phase, the tool list or the map from names to API keys.
C29_TerminalStatesFrozen ==
    [][Done => /\ phase' = phase
               /\ workflowTools' = workflowTools
               /\ workflowApiKeyMap' = workflowApiKeyMap]_vars

(* ------------- claims about repeated names and mixed shapes ----------- *)
\* What each entry of Reading(pd) is described by in the schema: the label
\* of a form field, the description of a legacy parameter.
RECURSIVE FormLabels(_)
FormLabels(form) ==
    IF form = <<>> THEN <<>>
    ELSE [i \in 1..Len(Head(form)) |-> Head(form)[i].field.label]
         \o FormLabels(Tail(form))
Described(pd) ==
    IF IsFormShape(pd) THEN FormLabels(Get(pd.user_input_form).items)
    ELSE IF HasParametersOf(pd, "array")
    THEN [i \in 1..Len(Get(pd.parameters).items) |->
             Get(pd.parameters).items[i].description]
    ELSE IF HasParametersOf(pd, "object")
    THEN [i \in 1..Len(Get(pd.parameters).items) |->
             IF Get(pd.parameters).items[i].isObject
             THEN Get(pd.parameters).items[i].value.description
             ELSE None]
    ELSE <<>>

\* The property the k-th entry of the schema declares: a form field by its
\* tag and its label (its variable when it has no label), a legacy parameter
\* by its declared type ("string" when it has none) and its description
\* ("" when it has none).
DeclaredProperty(pd, k) ==
    LET e == Reading(pd)[k]
        text == Described(pd)[k]
    IN IF IsFormShape(pd)
       THEN [type |-> C13_TagTable(e.tag),
             description |-> IF TruthyStr(text) THEN Get(text)
                             ELSE Get(e.name)]
       ELSE [type |-> IF TruthyStr(e.declared) THEN Get(e.declared)
                      ELSE "string",
             description |-> IF TruthyStr(text) THEN Get(text) ELSE ""]

\* C32: when a schema declares a parameter name more than once, the
\* normalised properties hold one entry under that name, and its type and
\* description are those of the last entry that declares it.
C32_LastDeclarationWins ==
    IsSome(schOut) =>
        LET r == Get(schOut)
            entries == Reading(schIn)
        IN /\ \A i \in 1..Len(entries) :
                  Named(entries[i]) =>
                      Get(entries[i].name) \in DOMAIN r.properties
           /\ \A n \in DOMAIN r.properties :
                  r.properties[n] =
                      DeclaredProperty(schIn, LastNamed(entries, n))

C32_Witness ==
    /\ IsSome(schOut)
    /\ HasParametersOf(schIn, "array")
    /\ LET entries == Reading(schIn) IN
       /\ Len(entries) = 2
       /\ entries[1].name = Some("query")
       /\ entries[1].declared = Some("number")
       /\ Described(schIn)[1] = Some("Max results")
       /\ entries[2].name = Some("query")
       /\ entries[2].declared = None
       /\ Described(schIn)[2] = None
    /\ Get(schOut).properties =
           ("query" :> [type |-> "string", description |-> ""])

\* C33: for a form-shape schema, every component with a variable yields a
\* property under that variable, described by the field's label, or by the
\* variable itself when the field has no label; required lists, in component
\* order, exactly the variables of the fields whose required flag is set.
C33_FormPropertiesAndRequired ==
    (IsSome(schOut) /\ IsFormShape(schIn)) =>
        LET r == Get(schOut)
            entries == Reading(schIn)
            labels == Described(schIn)
        IN /\ DOMAIN r.properties =
                  {Get(entries[i].name) :
                      i \in {j \in 1..Len(entries) : Named(entries[j])}}
           /\ \A n \in DOMAIN r.properties :
                  LET k == LastNamed(entries, n) IN
                  r.properties[n].description =
                      (IF TruthyStr(labels[k]) THEN Get(labels[k]) ELSE n)
           /\ r.required = NamesOf(SelectSeq(entries, NamedRequired))

C33_Witness ==
    /\ IsSome(schOut)
    /\ IsFormShape(schIn)
    /\ LET entries == Reading(schIn) IN
       /\ Len(entries) = 2
       /\ entries[1].tag = "number" /\ entries[1].name = Some("query")
       /\ ~entries[1].required
       /\ Described(schIn)[1] = None
       /\ entries[2].tag = "checkbox" /\ entries[2].name = Some("limit")
       /\ entries[2].required
    /\ Get(schOut).properties["query"] =
           [type |-> "number", description |-> "query"]
    /\ Get(schOut).properties["limit"].type = "array"
    /\ Get(schOut).required = <<"limit">>

\* C38: when a schema carries the form shape (user_input_form is a
\* sequence, even an empty one) and a legacy parameters field as well, only
\* the form is normalised: properties and required are those of the form
\* alone, and neither a legacy diagnostic nor "No parameter definition
\* found" is emitted.
C38_FormShapeShadowsLegacy ==
    (IsSome(schOut) /\ IsFormShape(schIn) /\ IsSome(schIn.parameters)) =>
        LET r == Get(schOut)
            form == FormReading(Get(schIn.user_input_form).items, 0)
            bad == SelectSeq(form, Nameless)
        IN /\ DOMAIN r.properties =
                  {Get(form[i].name) :
                      i \in {j \in 1..Len(form) : Named(form[j])}}
           /\ r.required = NamesOf(SelectSeq(form, NamedRequired))
           /\ r.diagnostics =
                  [i \in 1..Len(bad) |-> FormNoVariableWarning(bad[i].position)]

C38_Witness ==
    /\ IsSome(schOut)
    /\ schIn.user_input_form = FormOf(<<>>)
    /\ HasParametersOf([schIn EXCEPT !.user_input_form = None], "array")
    /\ LET legacy == Get(schIn.parameters).items IN
       /\ Len(legacy) = 1
       /\ legacy[1].name = Some("query")
       /\ legacy[1].required
    /\ Get(schOut) = EmptySchema

(* ------------------- claims about the discovery pass ------------------ *)
\* initialize() has ended and its loop over the API keys was entered.
PassEnded ==
    Done /\ initError \notin {"ConfigurationInvalid", "NoApiKeys"}

\* C34: at the end of a discovery pass, success + failed is the number of
\* configured API keys, success is the number of workflow data collected,
\* and the pass fails with NoBackendsAvailable exactly when success is 0.
C34_CountsAddUp ==
    /\ PassEnded =>
          /\ success + failed = Len(apiKeys)
          /\ success = Len(results)
          /\ success = Cardinality(OkPositions)
          /\ failed = Cardinality(FailedPositions)
          /\ (phase = "Failed" /\ initError = "NoBackendsAvailable")
                 <=> success = 0
          /\ phase = "Ready" <=> success > 0
    /\ phase = "Initializing" =>
          /\ success + failed = idx - 1
          /\ success = Len(results)

C34_Witness ==
    /\ PassEnded
    /\ Len(apiKeys) = 3
    /\ success = 1
    /\ failed = 2
    /\ fetchOutcome = <<"paramsFailed", "ok", "infoFailed">>
    /\ phase = "Ready"

\* The API keys the map holds, and those of the collected workflow data.
RegisteredKeys == {workflowApiKeyMap[n] : n \in DOMAIN workflowApiKeyMap}
CollectedKeys == {results[i].apiKey : i \in 1..Len(results)}
Logged(position, operation, event) ==
    \E n \in 1..Len(fetchLog) :
        fetchLog[n] = FetchEvent(position, operation, event)

\* C36: the discovery of one API key is all or nothing.  A key has a map
\* entry, collected data and a tool only if its fetchInfo and its
\* fetchParameters both returned; when its fetchInfo failed its
\* fetchParameters was never issued; when its fetchParameters failed
\* nothing is registered or collected for it.
C36_KeyAllOrNothing ==
    /\ \A i \in KeyPositions :
          /\ (apiKeys[i] \in RegisteredKeys \/ apiKeys[i] \in CollectedKeys) =>
                 /\ fetchOutcome[i] = "ok"
                 /\ Logged(i, "fetchInfo", "returned")
                 /\ Logged(i, "fetchParameters", "returned")
          /\ fetchOutcome[i] = "infoFailed" =>
                 /\ Logged(i, "fetchInfo", "failed")
                 /\ ~Logged(i, "fetchParameters", "issued")
          /\ fetchOutcome[i] = "paramsFailed" =>
                 /\ Logged(i, "fetchInfo", "returned")
                 /\ Logged(i, "fetchParameters", "failed")
                 /\ apiKeys[i] \notin RegisteredKeys
                 /\ apiKeys[i] \notin CollectedKeys
    /\ Len(workflowTools) <= Cardinality(OkPositions)
    /\ phase = "Ready" => Len(workflowTools) = Cardinality(OkPositions)

C36_Witness ==
    /\ phase = "Ready"
    /\ fetchOutcome = <<"infoFailed", "paramsFailed", "ok">>
    /\ RegisteredKeys = {"k3"}
    /\ CollectedKeys = {"k3"}
    /\ Len(workflowTools) = 1

\* The position of the i-th API key whose discovery succeeded.
NthOk(i) ==
    CHOOSE p \in OkPositions :
        Cardinality({q \in OkPositions : q < p}) = i - 1

\* tool was built from workflowData: its name is the base name or the base
\* name with a suffix, its description and input schema are the backend's.
BuiltFrom(tool, workflowData) ==
    LET baseName == BaseNameOf(workflowData.infoData) IN
    /\ Len(tool.name) >= Len(baseName)
    /\ SubSeq(tool.name, 1, Len(baseName)) = baseName
    /\ tool.description =
           (IF TruthyStr(workflowData.infoData.description)
            THEN Get(workflowData.infoData.description)
            ELSE "Execute Dify Workflow")
    /\ tool.inputSchema.required =
           (IF workflowData.paramsData = LegacyQuery THEN <<"query">>
            ELSE <<>>)

\* C37: the tool list keeps the order of discovery.  The i-th tool was
\* built from the i-th API key, in configured order, among those whose
\* discovery succeeded, whichever keys failed in between.
C37_ToolsInKeyOrder ==
    phase = "Ready" =>
        /\ Len(workflowTools) = Cardinality(OkPositions)
        /\ Len(results) = Cardinality(OkPositions)
        /\ \A i \in 1..Len(workflowTools) :
              /\ results[i].apiKey = apiKeys[NthOk(i)]
              /\ BuiltFrom(workflowTools[i], results[i])

C37_Witness ==
    /\ phase = "Ready"
    /\ fetchOutcome = <<"ok", "infoFailed", "ok">>
    /\ results[1].apiKey = "k1"
    /\ results[1].infoData.name = Some(search1)
    /\ results[1].paramsData = EmptyParameters
    /\ results[2].apiKey = "k3"
    /\ results[2].infoData.name = Some(search)
    /\ results[2].paramsData = LegacyQuery
    /\ ToolNameSeq = <<search1, search>>
    /\ workflowTools[2].inputSchema.required = <<"query">>

(* ------------------- claims about the returned text ------------------- *)
\* C39: whatever the backend's run response, and whichever of data.outputs,
\* result and the whole response was taken for the output, the text of the
\* one content item a successful call returns is a string.
C39_TextIsString ==
    IsSome(wfReturn) =>
        LET content == Get(wfReturn).content IN
        \A i \in 1..Len(content) : content[i].text.t = "string"

(* ------------------- claims about the map of the service -------------- *)
\* C35: the map from names to API keys is the service's own.
\* getWorkflowApiKeyMap returns a copy, and changing the copy never changes
\* the service's map; setWorkflowApiKeyMap replaces the whole content by a
\* copy of its argument (no earlier entry survives, and changing the
\* argument afterwards changes nothing); clearWorkflowApiKeyMap leaves the
\* map empty.
C35_MapEncapsulated ==
    /\ callerMaps.last = "get" =>
          /\ Get(callerMaps.returned).entries = workflowApiKeyMap
          /\ workflowApiKeyMap = callerMaps.before
    /\ callerMaps.last \in {"mutateReturned", "mutateArgument"} =>
          workflowApiKeyMap = callerMaps.before
    /\ callerMaps.last = "set" =>
          /\ workflowApiKeyMap = Get(callerMaps.argument).entries
          /\ DOMAIN workflowApiKeyMap = DOMAIN Get(callerMaps.argument).entries
    /\ callerMaps.last = "clear" => workflowApiKeyMap = <<>>

C35_Witness ==
    /\ callerMaps.last = "mutateReturned"
    /\ IsSome(callerMaps.returned)
    /\ IsSome(callerMaps.argument)
    /\ workflowApiKeyMap = (search :> "k1")
    /\ Get(callerMaps.returned).entries =
           SetAll((search :> "k1"), (searchX :> "k0"))
    /\ Get(callerMaps.argument).entries = (search :> "k1")

(* ------------------- claims about the server process ------------------ *)
\* A list or a call request has been served.
Served == IsSome(toolsReturned) \/ lastCall # NoCall

\* C31: the list and call handlers are registered, and the transport
\* connected, only after the configuration was found valid and initialize
\* succeeded, so no request is served from a registry that is not Ready;
\* when the configuration is invalid or discovery fails the process exits
\* with code 1 and no handler is registered; a call request that fails
\* never ends the process.
C31_HandlersAfterInitialize ==
    /\ server.handlers => (phase = "Ready" /\ validate)
    /\ server.connected => server.handlers
    /\ Served => (phase = "Ready" /\ server.handlers /\ server.connected)
    /\ server.stage = "Exited" <=> server.exitCode = Some(1)
    /\ server.stage = "Exited" =>
          /\ ~validate \/ phase = "Failed"
          /\ ~server.handlers
          /\ ~server.connected
          /\ ~Served
    /\ (phase = "Failed" \/ (~validate /\ server.stage # "NotStarted")) =>
          /\ server.stage \in {"Initializing", "Exited"}
          /\ ~server.handlers
    /\ lastCall.result \in {"MissingArguments", "UnknownTool",
                            "ConnectorError"} =>
          /\ server.exitCode = None
          /\ server.stage = "Connected"

C31_Witness ==
    /\ server.stage = "Connected"
    /\ phase = "Ready"
    /\ fetchOutcome = <<"infoFailed", "ok">>
    /\ IsSome(toolsReturned)
    /\ lastCall.listed
    /\ lastCall.result = "ConnectorError"
    /\ server.exitCode = None

============================================================================
